---- MODULE Spec2Model ----
(***************************************************************************)
(* AddressME web application: the availability store, the booking engine   *)
(* and the application state machine of src/app.py over the tables of      *)
(* src/models.py.                                                          *)
(*                                                                         *)
(* Time is counted in units of 15 minutes from a Monday 00:00, so that a   *)
(* 30-minute interview is 2 units, the 15-minute gap and buffer 1 unit and *)
(* a day 96 units.  Every table is a set of rows (records); a primary key  *)
(* is assigned as SQLite assigns a rowid: the largest id in use plus one.  *)
(***************************************************************************)
EXTENDS Integers, FiniteSets, Sequences, TLC

(***************************************************************************)
(* Users.  The user table is fixed: every user is registered and has gone  *)
(* through the verification page (officers and leaders are approved).      *)
(***************************************************************************)
Residents == {"r1", "r2"}
Leaders == {"l1"}
\* The officers in the order of their rows in the user table.
OfficerList == <<"o1", "o2">>
Officers == {OfficerList[i] : i \in 1 .. Len(OfficerList)}

NoUser == "none"

(***************************************************************************)
(* Program constants, in units of 15 minutes.                              *)
(***************************************************************************)
UnitsPerDay == 96
UnitsPerHour == 4
InterviewDuration == 2
GapDuration == 1
BufferDuration == 1
CertificateDays == 365
DurationMinutes == 30
SeedDays == 7
SeedHours == <<9, 11, 13, 15>>
GenerationWeeks == 4

(***************************************************************************)
(* Bounds of the model.                                                    *)
(***************************************************************************)
\* The instants at which requests arrive: Monday 08:00 and Tuesday 09:15.
Instants == {32, 133}
StartNow == 32
MaxNow == 133
MaxApps == 2
MaxAppts == 2
MaxCerts == 2
MaxSlotId == 2
MaxSchedules == 2

VARIABLES
    now,        \* datetime.now(), in units since Monday 00:00
    slots,      \* table available_time_slot
    schedules,  \* table weekly_schedule
    breaks,     \* table scheduled_break
    apps,       \* table address_application
    appts,      \* table appointment
    certs,      \* table address_certificate
    isVerified, \* user.isVerified of each resident
    req,        \* the booking request each resident has in flight
    wreq,       \* the weekly-schedule requests in flight
    walk,       \* the weekly-schedule request that is generating slots
    dreq        \* the request to delete a slot that is in flight

db == <<slots, schedules, breaks, apps, appts, certs, isVerified>>
vars == <<now, slots, schedules, breaks, apps, appts, certs, isVerified, req, wreq, walk, dreq>>

----
(***************************************************************************)
(* Helpers                                                                 *)
(***************************************************************************)
Max(S) == CHOOSE x \in S : \A y \in S : y <= x

\* The primary key SQLite gives the next row of a table.
NextId(table) == IF table = {} THEN 1 ELSE Max({row.id : row \in table}) + 1

Date(t) == t \div UnitsPerDay
TimeOfDay(t) == t % UnitsPerDay
Weekday(d) == d % 7
Combine(d, tod) == d * UnitsPerDay + tod

\* The filter start_time < end AND end_time > start used by every
\* overlap query of the program.
Overlaps(s1, e1, s2, e2) == s1 < e2 /\ e1 > s2

\* timedelta(days = n)
Days(n) == n * UnitsPerDay

Get(table, id) == {row \in table : row.id = id}

Idle == [pc |-> "idle", app |-> 0, slot |-> 0, msg |-> ""]

\* The requests to police_add_weekly_availability that can be in flight at
\* once, and the state of one that is not: form is the submitted form.
WeeklyRequests == {"q1", "q2"}
WeeklyIdle == [pc |-> "idle", officer |-> NoUser, form |-> <<>>, msg |-> ""]

\* The state of a request to police_delete_availability that is not in flight.
DeleteIdle == [pc |-> "idle", officer |-> NoUser, slot |-> 0, msg |-> ""]

\* The state of a request that generates slots step by step: B and S are the
\* tables scheduled_break and available_time_slot as its session sees them.
WalkIdle == [pc |-> "idle", officer |-> NoUser, form |-> <<>>, schedule_id |-> 0,
             B |-> {}, S |-> {}, next_date |-> 0, week |-> 0, current_slot_start |-> 0]

----
Init ==
    /\ now = StartNow
    /\ slots = {}
    /\ schedules = {}
    /\ breaks = {}
    /\ apps = {}
    /\ appts = {}
    /\ certs = {}
    /\ isVerified = [r \in Residents |-> TRUE]
    /\ req = [r \in Residents |-> Idle]
    /\ wreq = [q \in WeeklyRequests |-> WeeklyIdle]
    /\ walk = WalkIdle
    /\ dreq = DeleteIdle

\* The clock moves on between two requests.
Tick ==
    /\ \E t \in Instants :
        /\ now < t
        /\ t <= MaxNow
        /\ now' = t
    /\ UNCHANGED <<db, req, wreq, walk, dreq>>

----
(***************************************************************************)
(* Commit and rollback.  A handler whose commit raises (ok = FALSE) runs   *)
(* db.session.rollback(): no table changes.                                *)
(***************************************************************************)
Rollback == UNCHANGED db

(***************************************************************************)
(* resident_form (POST) creates the first application of the resident;     *)
(* verification (POST) marks the resident verified.                        *)
(***************************************************************************)
NewApplication(r) ==
    [id |-> NextId(apps), applicant_id |-> r, leader_id |-> NoUser,
     officer_id |-> NoUser, status |-> "pending", officer_notes |-> <<>>]

HasResidentInfo(r) == \E a \in apps : a.applicant_id = r

resident_form(r, ok) ==
    /\ IF ~ok
       THEN /\ Rollback
       ELSE /\ apps' = IF \E a \in apps : a.applicant_id = r
                       THEN apps
                       ELSE apps \cup {NewApplication(r)}
            /\ UNCHANGED <<slots, schedules, breaks, appts, certs, isVerified>>
    /\ UNCHANGED <<now, req, wreq, walk, dreq>>

verification(r) ==
    /\ isVerified' = [isVerified EXCEPT ![r] = TRUE]
    /\ UNCHANGED <<now, slots, schedules, breaks, apps, appts, certs, req, wreq, walk, dreq>>

(***************************************************************************)
(* leader_review_application (POST)                                        *)
(***************************************************************************)
Decisions == {"approve", "reject", "reschedule", "other"}

LeaderDecide(a, l, decision) ==
    IF decision = "approve"
    THEN [a EXCEPT !.status = "leader_approved", !.leader_id = l]
    ELSE IF decision = "reject"
    THEN [a EXCEPT !.status = "rejected", !.leader_id = l]
    ELSE a

leader_review_application(l, application_id, decision) ==
    /\ \E a \in Get(apps, application_id) :
        /\ apps' = (apps \ {a}) \cup {LeaderDecide(a, l, decision)}
        /\ UNCHANGED <<now, slots, schedules, breaks, appts, certs, isVerified, req, wreq, walk, dreq>>

(***************************************************************************)
(* resident_profile_settings (POST).  The forms personal_info, id_photo    *)
(* and face_photo reset isVerified and cancel the pending applications of  *)
(* the resident; security and notifications touch none of the tables here. *)
(* Without a ResidentInfo row the first assignment to resident_info raises *)
(* and nothing is committed.                                               *)
(***************************************************************************)
IdentityForms == {"personal_info", "id_photo", "face_photo"}
FormTypes == IdentityForms \cup {"security", "notifications"}

\* CancelPending applied to every application of the resident.
CancelPending_AnyStatus(A, r) ==
    {IF a.applicant_id = r
     THEN [a EXCEPT !.status = "cancelled"]
     ELSE a : a \in A}

CancelPending(A, r) ==
    {IF a.applicant_id = r /\ a.status = "pending"
     THEN [a EXCEPT !.status = "cancelled"]
     ELSE a : a \in A}

resident_profile_settings(r, form_type) ==
    /\ IF form_type \in IdentityForms /\ HasResidentInfo(r)
       THEN /\ isVerified' = [isVerified EXCEPT ![r] = FALSE]
            /\ apps' = CancelPending(apps, r)
            /\ UNCHANGED <<slots, schedules, breaks, appts, certs>>
       ELSE /\ UNCHANGED db
    /\ UNCHANGED <<now, req, wreq, walk, dreq>>

(***************************************************************************)
(* resident_update_address                                                 *)
(***************************************************************************)
\* InProgress without the two interview statuses.
InProgress_BeforeInterview == {"pending", "leader_approved"}

InProgress == {"pending", "leader_approved", "interview_scheduled", "interview_completed"}

\* Supersede applied to every application of the resident that is not in
\* progress.
Supersede_Any(A, r) ==
    {IF a.applicant_id = r /\ a.status \notin InProgress
     THEN [a EXCEPT !.status = "superseded",
                    !.officer_notes = Append(@, "superseded by an address update")]
     ELSE a : a \in A}

Supersede(A, r) ==
    {IF a.applicant_id = r /\ a.status = "approved"
     THEN [a EXCEPT !.status = "superseded",
                    !.officer_notes = Append(@, "superseded by an address update")]
     ELSE a : a \in A}

resident_update_address(r, ok) ==
    /\ IF ~HasResidentInfo(r)
       THEN /\ UNCHANGED db
       ELSE IF \E a \in apps : a.applicant_id = r /\ a.status \in InProgress
       THEN /\ UNCHANGED db
       ELSE IF ~ok
       THEN /\ Rollback
       ELSE /\ Cardinality(apps) < MaxApps
            /\ apps' = Supersede(apps, r) \cup {NewApplication(r)}
            /\ isVerified' = [isVerified EXCEPT ![r] = FALSE]
            /\ UNCHANGED <<slots, schedules, breaks, appts, certs>>
    /\ UNCHANGED <<now, req, wreq, walk, dreq>>

----
(***************************************************************************)
(* police_add_availability: one ad-hoc slot on slot_date from start_time   *)
(* to end_time.                                                            *)
(***************************************************************************)
\* OverlappingSlots over the unbooked slots only.
OverlappingSlots_UnbookedOnly(S, o, start, end) ==
    {x \in S : /\ x.officer_id = o
               /\ x.is_booked = FALSE
               /\ x.start_time < end
               /\ x.end_time > start}

OverlappingSlots(S, o, start, end) ==
    {x \in S : /\ x.officer_id = o
               /\ x.start_time < end
               /\ x.end_time > start}

NewSlot(S, o, schedule_id, start, end) ==
    [id |-> NextId(S), officer_id |-> o, weekly_schedule_id |-> schedule_id,
     start_time |-> start, end_time |-> end, is_booked |-> FALSE]

police_add_availability(o, slot_date, start_time, end_time, ok) ==
    LET start_datetime == Combine(slot_date, start_time)
        end_datetime == Combine(slot_date, end_time)
    IN  /\ IF start_datetime >= end_datetime
           THEN /\ UNCHANGED db
           ELSE IF start_datetime < now
           THEN /\ UNCHANGED db
           ELSE IF OverlappingSlots(slots, o, start_datetime, end_datetime) # {}
           THEN /\ UNCHANGED db
           ELSE IF ~ok
           THEN /\ Rollback
           ELSE /\ slots' = slots \cup {NewSlot(slots, o, 0, start_datetime, end_datetime)}
                /\ UNCHANGED <<schedules, breaks, apps, appts, certs, isVerified>>
        /\ UNCHANGED <<now, req, wreq, walk, dreq>>

(***************************************************************************)
(* police_delete_availability                                              *)
(***************************************************************************)
\* police_delete_availability without the check of is_booked.
police_delete_availability_Booked(o, slot_id, ok) ==
    LET found == {x \in Get(slots, slot_id) : x.officer_id = o}
    IN  /\ IF found = {}
           THEN /\ UNCHANGED db
           ELSE IF ~ok
           THEN /\ Rollback
           ELSE /\ slots' = slots \ found
                /\ UNCHANGED <<schedules, breaks, apps, appts, certs, isVerified>>
        /\ UNCHANGED <<now, req, wreq, walk, dreq>>

police_delete_availability(o, slot_id, ok) ==
    LET found == {x \in Get(slots, slot_id) : x.officer_id = o}
    IN  /\ IF found = {}
           THEN /\ UNCHANGED db
           ELSE IF \E x \in found : x.is_booked
           THEN /\ UNCHANGED db
           ELSE IF ~ok
           THEN /\ Rollback
           ELSE /\ slots' = slots \ found
                /\ UNCHANGED <<schedules, breaks, apps, appts, certs, isVerified>>
        /\ UNCHANGED <<now, req, wreq, walk, dreq>>

(***************************************************************************)
(* police_delete_availability as two steps of a request that runs beside   *)
(* other requests: DeleteRead is lines 2070-2079 (the load of the slot and *)
(* the checks), DeleteWrite lines 2081-2087 (DELETE of the loaded row by   *)
(* its id and the commit, or the rollback).                                *)
(***************************************************************************)
DeletedMsg == "Time slot deleted successfully."

DeleteRead(o, slot_id) ==
    /\ dreq.pc = "idle"
    /\ LET found == {x \in Get(slots, slot_id) : x.officer_id = o}
       IN  dreq' = [pc |-> IF found = {} \/ \E x \in found : x.is_booked
                           THEN "done" ELSE "checked",
                    officer |-> o, slot |-> slot_id,
                    msg |-> IF found = {}
                            THEN "Time slot not found."
                            ELSE IF \E x \in found : x.is_booked
                            THEN "Cannot delete a booked time slot."
                            ELSE ""]
    /\ UNCHANGED <<now, db, req, wreq, walk>>

DeleteWrite(ok) ==
    /\ dreq.pc = "checked"
    /\ IF ok
       THEN /\ slots' = slots \ Get(slots, dreq.slot)
            /\ UNCHANGED <<schedules, breaks, apps, appts, certs, isVerified>>
            /\ dreq' = [dreq EXCEPT !.pc = "done", !.msg = DeletedMsg]
       ELSE /\ Rollback
            /\ dreq' = [dreq EXCEPT !.pc = "done", !.msg = "An error occurred. Please try again."]
    /\ UNCHANGED <<now, req, wreq, walk>>

\* The response of the finished request has been delivered.
DeleteDone ==
    /\ dreq.pc = "done"
    /\ dreq' = DeleteIdle
    /\ UNCHANGED <<now, db, req, wreq, walk>>

(***************************************************************************)
(* police_add_weekly_availability: a weekly schedule for day_of_week from  *)
(* start_time to end_time with the breaks of the form lists break_start[]  *)
(* and break_end[], and the slots generated from it for the next 4 weeks.  *)
(* A form field is a time of day, EmptyField or BadField (unparseable).    *)
(***************************************************************************)
EmptyField == 0 - 1
BadField == 0 - 2

NewSchedule(o, day_of_week, start_time, end_time) ==
    [id |-> NextId(schedules), officer_id |-> o, day_of_week |-> day_of_week,
     start_time |-> start_time, end_time |-> end_time, is_active |-> TRUE]

\* Lines 2164-2179: the loop over break_starts.  raised is TRUE when
\* break_ends[i] raises IndexError, which leaves the loop and the handler's
\* outer try block.
RECURSIVE ProcessBreaks(_, _, _, _, _)
ProcessBreaks(B, schedule_id, break_starts, break_ends, i) ==
    IF i > Len(break_starts)
    THEN [raised |-> FALSE, rows |-> B]
    ELSE IF break_starts[i] = EmptyField
    THEN ProcessBreaks(B, schedule_id, break_starts, break_ends, i + 1)
    ELSE IF i > Len(break_ends)
    THEN [raised |-> TRUE, rows |-> B]
    ELSE IF break_ends[i] = EmptyField
    THEN ProcessBreaks(B, schedule_id, break_starts, break_ends, i + 1)
    ELSE IF break_starts[i] = BadField \/ break_ends[i] = BadField
    THEN ProcessBreaks(B, schedule_id, break_starts, break_ends, i + 1)
    ELSE ProcessBreaks(
            B \cup {[id |-> NextId(B), schedule_id |-> schedule_id,
                     break_start_time |-> break_starts[i],
                     break_end_time |-> break_ends[i]]},
            schedule_id, break_starts, break_ends, i + 1)

\* FirstOccurrence that takes next week whenever today is the day.
FirstOccurrence_NextWeek(day_of_week, end_time) ==
    LET days_ahead == (day_of_week - Weekday(Date(now))) % 7
    IN  Date(now) + (IF days_ahead = 0 THEN 7 ELSE days_ahead)

\* Lines 2184-2191
FirstOccurrence(day_of_week, end_time) ==
    LET days_ahead == (day_of_week - Weekday(Date(now))) % 7
    IN  Date(now) + (IF days_ahead = 0 /\ TimeOfDay(now) >= end_time THEN 7 ELSE days_ahead)

\* IsBreakTime with the break taken as a closed interval.
IsBreakTime_Closed(break_times, current_slot_start, current_slot_end) ==
    \E b \in break_times :
        /\ TimeOfDay(current_slot_start) <= b.break_end_time
        /\ TimeOfDay(current_slot_end) >= b.break_start_time

\* IsBreakTime as the test whether the candidate starts inside the break.
IsBreakTime_StartInside(break_times, current_slot_start, current_slot_end) ==
    \E b \in break_times :
        /\ b.break_start_time <= TimeOfDay(current_slot_start)
        /\ TimeOfDay(current_slot_start) < b.break_end_time

IsBreakTime(break_times, current_slot_start, current_slot_end) ==
    \E b \in break_times :
        /\ TimeOfDay(current_slot_start) < b.break_end_time
        /\ TimeOfDay(current_slot_end) > b.break_start_time

\* WalkDay where the walk adds the gap after a candidate dropped for a break.
RECURSIVE WalkDay_GapAfterBreak(_, _, _, _, _, _)
WalkDay_GapAfterBreak(S, o, schedule_id, break_times, current_slot_start, day_end) ==
    IF ~(current_slot_start + InterviewDuration <= day_end)
    THEN S
    ELSE LET current_slot_end == current_slot_start + InterviewDuration
         IN  IF IsBreakTime(break_times, current_slot_start, current_slot_end)
             THEN WalkDay_GapAfterBreak(S, o, schedule_id, break_times,
                                        current_slot_end + GapDuration, day_end)
             ELSE IF OverlappingSlots(S, o, current_slot_start, current_slot_end) = {}
             THEN WalkDay_GapAfterBreak(
                      S \cup {NewSlot(S, o, schedule_id, current_slot_start, current_slot_end)},
                      o, schedule_id, break_times, current_slot_end + GapDuration, day_end)
             ELSE WalkDay_GapAfterBreak(S, o, schedule_id, break_times,
                                        current_slot_end + GapDuration, day_end)

\* Lines 2215-2263: the walk over one day.
RECURSIVE WalkDay(_, _, _, _, _, _)
WalkDay(S, o, schedule_id, break_times, current_slot_start, day_end) ==
    IF ~(current_slot_start + InterviewDuration <= day_end)
    THEN S
    ELSE LET current_slot_end == current_slot_start + InterviewDuration
         IN  IF IsBreakTime(break_times, current_slot_start, current_slot_end)
             THEN WalkDay(S, o, schedule_id, break_times, current_slot_end, day_end)
             ELSE IF OverlappingSlots(S, o, current_slot_start, current_slot_end) = {}
             THEN WalkDay(S \cup {NewSlot(S, o, schedule_id, current_slot_start, current_slot_end)},
                          o, schedule_id, break_times, current_slot_end + GapDuration, day_end)
             ELSE WalkDay(S, o, schedule_id, break_times,
                          current_slot_end + GapDuration, day_end)

\* Lines 2194-2263: the loop over the 4 weeks.
RECURSIVE GenerateSlots(_, _, _, _, _, _, _, _)
GenerateSlots(S, o, schedule_id, break_times, next_date, start_time, end_time, week) ==
    IF week >= GenerationWeeks
    THEN S
    ELSE LET slot_date == next_date + week * 7
             day_start == Combine(slot_date, start_time)
             day_end == Combine(slot_date, end_time)
         IN  IF day_start < now
             THEN GenerateSlots(S, o, schedule_id, break_times, next_date,
                                start_time, end_time, week + 1)
             ELSE GenerateSlots(
                     WalkDay(S, o, schedule_id, break_times, day_start, day_end),
                     o, schedule_id, break_times, next_date, start_time, end_time, week + 1)

\* ExistingSchedule with the is_active filter inverted.
ExistingSchedule_Inactive(o, day_of_week) ==
    {w \in schedules : /\ w.officer_id = o
                       /\ w.day_of_week = day_of_week
                       /\ ~w.is_active}

\* Lines 2136-2140: the active schedule of the officer for the day.
ExistingSchedule(o, day_of_week) ==
    {w \in schedules : /\ w.officer_id = o
                       /\ w.day_of_week = day_of_week
                       /\ w.is_active}

\* Lines 2146-2265 when nothing raises: the schedule, its breaks and the
\* generated slots.
WeeklyWrites(o, day_of_week, start_time, end_time, break_starts, break_ends) ==
    LET new_schedule == NewSchedule(o, day_of_week, start_time, end_time)
        processed == ProcessBreaks(breaks, new_schedule.id, break_starts, break_ends, 1)
        break_times == {b \in processed.rows : b.schedule_id = new_schedule.id}
        next_date == FirstOccurrence(day_of_week, end_time)
    IN  /\ schedules' = schedules \cup {new_schedule}
        /\ breaks' = processed.rows
        /\ slots' = GenerateSlots(slots, o, new_schedule.id, break_times,
                                  next_date, start_time, end_time, 0)
        /\ UNCHANGED <<apps, appts, certs, isVerified>>

\* Line 2164 raises IndexError when break_ends is too short.
BreaksRaise(break_starts, break_ends) ==
    ProcessBreaks(breaks, NextId(schedules), break_starts, break_ends, 1).raised

police_add_weekly_availability(o, day_of_week, start_time, end_time, break_starts, break_ends, ok) ==
    /\ IF start_time >= end_time
       THEN /\ UNCHANGED db
       ELSE IF ExistingSchedule(o, day_of_week) # {}
       THEN /\ UNCHANGED db
       ELSE IF BreaksRaise(break_starts, break_ends) \/ ~ok
       THEN /\ Rollback
       ELSE /\ Cardinality(schedules) < MaxSchedules
            /\ WeeklyWrites(o, day_of_week, start_time, end_time, break_starts, break_ends)
    /\ UNCHANGED <<now, req, wreq, walk, dreq>>

\* Lines 2194-2263: the slots the walk adds to the session.
GeneratedSlots(o, day_of_week, start_time, end_time, break_starts, break_ends) ==
    LET schedule_id == NextId(schedules)
        processed == ProcessBreaks(breaks, schedule_id, break_starts, break_ends, 1)
        break_times == {b \in processed.rows : b.schedule_id = schedule_id}
        next_date == FirstOccurrence(day_of_week, end_time)
    IN  GenerateSlots(slots, o, schedule_id, break_times,
                      next_date, start_time, end_time, 0) \ slots

\* The per-slot try (2243-2259) holds the constructor and db.session.add,
\* which write nothing to the database.  The INSERT of a generated slot
\* runs in the autoflush of the next overlap query (2234) or in the commit
\* (2265): when it raises for a slot whose start is in failed, the handler
\* leaves through the outer except (2270-2273).
InsertRaises(o, day_of_week, start_time, end_time, break_starts, break_ends, failed) ==
    \E x \in GeneratedSlots(o, day_of_week, start_time, end_time, break_starts, break_ends) :
        x.start_time \in failed

(***************************************************************************)
(* police_add_weekly_availability as two steps of a request that runs      *)
(* beside other requests: WeeklyRead is lines 2114-2144 (the form and the  *)
(* query for an active schedule of the day), WeeklyWrite lines 2146-2273   *)
(* (from the flush of the new schedule, which opens the write transaction, *)
(* to the commit or the rollback).                                         *)
(***************************************************************************)
WeeklyRead(q, o, day_of_week, start_time, end_time, break_starts, break_ends) ==
    /\ wreq[q].pc = "idle"
    /\ wreq' = [wreq EXCEPT ![q] =
                 [pc |-> IF start_time >= end_time \/ ExistingSchedule(o, day_of_week) # {}
                         THEN "done" ELSE "checked",
                  officer |-> o,
                  form |-> <<day_of_week, start_time, end_time, break_starts, break_ends>>,
                  msg |-> IF start_time >= end_time
                          THEN "Start time must be before end time."
                          ELSE IF ExistingSchedule(o, day_of_week) # {}
                          THEN "You already have a schedule for this day."
                          ELSE ""]]
    /\ UNCHANGED <<now, db, req, walk, dreq>>

WeeklyWrite(q, ok) ==
    /\ wreq[q].pc = "checked"
    /\ LET form == wreq[q].form
       IN  IF BreaksRaise(form[4], form[5]) \/ ~ok
           THEN /\ Rollback
                /\ wreq' = [wreq EXCEPT ![q].pc = "done", ![q].msg = "An error occurred"]
           ELSE /\ Cardinality(schedules) < MaxSchedules
                /\ WeeklyWrites(wreq[q].officer, form[1], form[2], form[3], form[4], form[5])
                /\ wreq' = [wreq EXCEPT ![q].pc = "done", ![q].msg = "Added weekly schedule"]
    /\ UNCHANGED <<now, req, walk, dreq>>

\* WeeklyWrite where the INSERTs of the slots starting in failed raise and
\* nothing else does.
WeeklyWriteInsert(q, failed) ==
    /\ wreq[q].pc = "checked"
    /\ LET form == wreq[q].form
       IN  WeeklyWrite(q, ~InsertRaises(wreq[q].officer, form[1], form[2], form[3],
                                        form[4], form[5], failed))

\* The response of a finished request has been delivered.
WeeklyDone(q) ==
    /\ wreq[q].pc = "done"
    /\ wreq' = [wreq EXCEPT ![q] = WeeklyIdle]
    /\ UNCHANGED <<now, db, req, walk, dreq>>

(***************************************************************************)
(* police_add_weekly_availability with the generation loop step by step:   *)
(* WalkBegin is lines 2114-2191 (form, checks, schedule, breaks, first     *)
(* date), WalkWeek lines 2194-2213 (one turn of the loop over the weeks),  *)
(* WalkIter lines 2215-2263 (one turn of the while loop), WalkCommit lines *)
(* 2265-2273.                                                              *)
(***************************************************************************)
WalkBegin(o, day_of_week, start_time, end_time, break_starts, break_ends) ==
    /\ walk.pc = "idle"
    /\ start_time < end_time
    /\ ExistingSchedule(o, day_of_week) = {}
    /\ ~BreaksRaise(break_starts, break_ends)
    /\ Cardinality(schedules) < MaxSchedules
    /\ walk' = [pc |-> "week", officer |-> o,
                form |-> <<day_of_week, start_time, end_time, break_starts, break_ends>>,
                schedule_id |-> NextId(schedules),
                B |-> ProcessBreaks(breaks, NextId(schedules), break_starts, break_ends, 1).rows,
                S |-> slots,
                next_date |-> FirstOccurrence(day_of_week, end_time),
                week |-> 0, current_slot_start |-> 0]
    /\ UNCHANGED <<now, db, req, wreq, dreq>>

WalkWeek ==
    /\ walk.pc = "week"
    /\ walk.week < GenerationWeeks
    /\ LET slot_date == walk.next_date + walk.week * 7
           day_start == Combine(slot_date, walk.form[2])
       IN  IF day_start < now
           THEN walk' = [walk EXCEPT !.week = @ + 1]
           ELSE walk' = [walk EXCEPT !.pc = "walking", !.current_slot_start = day_start]
    /\ UNCHANGED <<now, db, req, wreq, dreq>>

\* NextStart that stays on a candidate dropped for a break.
NextStart_StayOnBreak(break_times, current_slot_start) ==
    LET current_slot_end == current_slot_start + InterviewDuration
    IN  IF IsBreakTime(break_times, current_slot_start, current_slot_end)
        THEN current_slot_start
        ELSE current_slot_end + GapDuration

\* Lines 2229-2232 and 2261-2263: the start of the next candidate.
NextStart(break_times, current_slot_start) ==
    LET current_slot_end == current_slot_start + InterviewDuration
    IN  IF IsBreakTime(break_times, current_slot_start, current_slot_end)
        THEN current_slot_end
        ELSE current_slot_end + GapDuration

WalkIter ==
    /\ walk.pc = "walking"
    /\ LET day_end == Combine(walk.next_date + walk.week * 7, walk.form[3])
           current_slot_start == walk.current_slot_start
           current_slot_end == current_slot_start + InterviewDuration
           break_times == {b \in walk.B : b.schedule_id = walk.schedule_id}
       IN  IF ~(current_slot_start + InterviewDuration <= day_end)
           THEN walk' = [walk EXCEPT !.pc = "week", !.week = @ + 1]
           ELSE walk' = [walk EXCEPT
                    !.S = IF /\ ~IsBreakTime(break_times, current_slot_start, current_slot_end)
                             /\ OverlappingSlots(walk.S, walk.officer,
                                                 current_slot_start, current_slot_end) = {}
                          THEN @ \cup {NewSlot(@, walk.officer, walk.schedule_id,
                                               current_slot_start, current_slot_end)}
                          ELSE @,
                    !.current_slot_start = NextStart(break_times, current_slot_start)]
    /\ UNCHANGED <<now, db, req, wreq, dreq>>

WalkCommit(ok) ==
    /\ walk.pc = "week"
    /\ walk.week >= GenerationWeeks
    /\ IF ok
       THEN /\ schedules' = schedules \cup
                    {NewSchedule(walk.officer, walk.form[1], walk.form[2], walk.form[3])}
            /\ breaks' = walk.B
            /\ slots' = walk.S
            /\ UNCHANGED <<apps, appts, certs, isVerified>>
       ELSE Rollback
    /\ walk' = [walk EXCEPT !.pc = "done"]
    /\ UNCHANGED <<now, req, wreq, dreq>>

\* The response of the finished request has been delivered.
WalkDone ==
    /\ walk.pc = "done"
    /\ walk' = WalkIdle
    /\ UNCHANGED <<now, db, req, wreq, dreq>>

(***************************************************************************)
(* police_delete_weekly_schedule and police_clear_availability             *)
(***************************************************************************)
\* police_delete_weekly_schedule without the filter start_time > now.
police_delete_weekly_schedule_PastToo(o, schedule_id, ok) ==
    LET found == {w \in Get(schedules, schedule_id) : w.officer_id = o}
    IN  /\ IF found = {}
           THEN /\ UNCHANGED db
           ELSE IF ~ok
           THEN /\ Rollback
           ELSE /\ schedules' = {IF w \in found THEN [w EXCEPT !.is_active = FALSE] ELSE w
                                 : w \in schedules}
                /\ slots' = {x \in slots : ~(/\ x.weekly_schedule_id = schedule_id
                                             /\ x.is_booked = FALSE)}
                /\ UNCHANGED <<breaks, apps, appts, certs, isVerified>>
        /\ UNCHANGED <<now, req, wreq, walk, dreq>>

police_delete_weekly_schedule(o, schedule_id, ok) ==
    LET found == {w \in Get(schedules, schedule_id) : w.officer_id = o}
    IN  /\ IF found = {}
           THEN /\ UNCHANGED db
           ELSE IF ~ok
           THEN /\ Rollback
           ELSE /\ schedules' = {IF w \in found THEN [w EXCEPT !.is_active = FALSE] ELSE w
                                 : w \in schedules}
                /\ slots' = {x \in slots : ~(/\ x.weekly_schedule_id = schedule_id
                                             /\ x.is_booked = FALSE
                                             /\ x.start_time > now)}
                /\ UNCHANGED <<breaks, apps, appts, certs, isVerified>>
        /\ UNCHANGED <<now, req, wreq, walk, dreq>>

\* police_clear_availability without the officer filter of the slot query.
police_clear_availability_AllOfficers(o, ok) ==
    /\ IF ~ok
       THEN /\ Rollback
       ELSE /\ slots' = {x \in slots : ~(/\ x.is_booked = FALSE
                                         /\ x.start_time > now)}
            /\ schedules' = {IF w.officer_id = o /\ w.is_active
                             THEN [w EXCEPT !.is_active = FALSE]
                             ELSE w : w \in schedules}
            /\ UNCHANGED <<breaks, apps, appts, certs, isVerified>>
    /\ UNCHANGED <<now, req, wreq, walk, dreq>>

police_clear_availability(o, ok) ==
    /\ IF ~ok
       THEN /\ Rollback
       ELSE /\ slots' = {x \in slots : ~(/\ x.officer_id = o
                                         /\ x.is_booked = FALSE
                                         /\ x.start_time > now)}
            /\ schedules' = {IF w.officer_id = o /\ w.is_active
                             THEN [w EXCEPT !.is_active = FALSE]
                             ELSE w : w \in schedules}
            /\ UNCHANGED <<breaks, apps, appts, certs, isVerified>>
    /\ UNCHANGED <<now, req, wreq, walk, dreq>>

----
(***************************************************************************)
(* book_interview_slot.  The handler loads the application and the slot    *)
(* and checks them (BookingCheck is the message of the first check that    *)
(* fails, "" when all pass); then it writes through the rows it loaded.    *)
(***************************************************************************)
SlotUnavailableMsg == "This time slot is no longer available."

\* BookingCheck without the check of is_booked.
BookingCheck_NoBookedCheck(r, application_id, slot_id) ==
    IF \A a \in Get(apps, application_id) : a.applicant_id # r
    THEN "Application not found."
    ELSE IF \E a \in Get(apps, application_id) : a.status # "leader_approved"
    THEN "This application is not ready for interview scheduling."
    ELSE IF Get(slots, slot_id) = {}
    THEN "Time slot not found."
    ELSE ""

BookingCheck(r, application_id, slot_id) ==
    IF \A a \in Get(apps, application_id) : a.applicant_id # r
    THEN "Application not found."
    ELSE IF \E a \in Get(apps, application_id) : a.status # "leader_approved"
    THEN "This application is not ready for interview scheduling."
    ELSE IF Get(slots, slot_id) = {}
    THEN "Time slot not found."
    ELSE IF \E x \in Get(slots, slot_id) : x.is_booked
    THEN SlotUnavailableMsg
    ELSE ""

\* BufferSlots without the filter on the officer.
BufferSlots_AnyOfficer(S, time_slot) ==
    LET buffer_end_time == time_slot.end_time + BufferDuration
    IN  {x \in S : /\ x.id # time_slot.id
                   /\ x.is_booked = FALSE
                   /\ x.start_time < buffer_end_time
                   /\ x.end_time > time_slot.start_time}

\* BufferSlots without the 15 minutes after the interview.
BufferSlots_NoBuffer(S, time_slot) ==
    {x \in S : /\ x.officer_id = time_slot.officer_id
               /\ x.id # time_slot.id
               /\ x.is_booked = FALSE
               /\ x.start_time < time_slot.end_time
               /\ x.end_time > time_slot.start_time}

\* Lines 2507-2516: the unbooked slots of the same officer, other than the
\* chosen one, that intersect [start_time, end_time + 15 minutes).
BufferSlots(S, time_slot) ==
    LET buffer_end_time == time_slot.end_time + BufferDuration
    IN  {x \in S : /\ x.officer_id = time_slot.officer_id
                   /\ x.id # time_slot.id
                   /\ x.is_booked = FALSE
                   /\ x.start_time < buffer_end_time
                   /\ x.end_time > time_slot.start_time}

\* Lines 2502 and 2519-2520
BookSlots(S, time_slot) ==
    LET overlapping_slots == BufferSlots(S, time_slot)
    IN  {IF x.id = time_slot.id \/ x \in overlapping_slots
         THEN [x EXCEPT !.is_booked = TRUE]
         ELSE x : x \in S}

NewAppointment(r, time_slot, application_id, status) ==
    [id |-> NextId(appts), resident_id |-> r, officer_id |-> time_slot.officer_id,
     application_id |-> application_id, appointment_date |-> time_slot.start_time,
     duration_minutes |-> DurationMinutes, status |-> status]

\* NewCertificate valid for 366 days.
NewCertificate_LeapYear(application_id) ==
    [id |-> NextId(certs), application_id |-> application_id,
     issue_date |-> now, expiry_date |-> now + Days(CertificateDays + 1)]

NewCertificate(application_id) ==
    LET issue_date == now
        expiry_date == issue_date + Days(CertificateDays)
    IN  [id |-> NextId(certs), application_id |-> application_id,
         issue_date |-> issue_date, expiry_date |-> expiry_date]

\* AutoApprove without the assignment of officer_id.
AutoApprove_NoOfficer(A, application_id, time_slot) ==
    {IF a.id = application_id
     THEN [a EXCEPT !.status = "approved",
                    !.officer_notes = <<"Auto-approved for testing purposes">>]
     ELSE a : a \in A}

AutoApprove(A, application_id, time_slot) ==
    {IF a.id = application_id
     THEN [a EXCEPT !.status = "approved",
                    !.officer_id = time_slot.officer_id,
                    !.officer_notes = <<"Auto-approved for testing purposes">>]
     ELSE a : a \in A}

\* Lines 2491-2543: the writes of a booking, through time_slot, the row of
\* the chosen slot as the handler loaded it.
BookingWrites(r, application_id, time_slot) ==
    /\ slots' = BookSlots(slots, time_slot)
    /\ apps' = AutoApprove(apps, application_id, time_slot)
    /\ appts' = appts \cup {NewAppointment(r, time_slot, application_id, "completed")}
    /\ certs' = certs \cup {NewCertificate(application_id)}
    /\ UNCHANGED <<schedules, breaks, isVerified>>

BookedMsg == "Interview scheduled and automatically approved for testing!"
BookErrorMsg == "An error occurred"

book_interview_slot(r, application_id, slot_id, ok) ==
    /\ LET msg == BookingCheck(r, application_id, slot_id)
       IN  IF msg # ""
           THEN /\ UNCHANGED db
           ELSE \E time_slot \in Get(slots, slot_id) :
                   IF ok
                   THEN /\ Cardinality(appts) < MaxAppts
                        /\ BookingWrites(r, application_id, time_slot)
                   ELSE Rollback
    /\ UNCHANGED <<now, req, wreq, walk, dreq>>

(***************************************************************************)
(* book_interview_slot as two steps of a request that runs beside other    *)
(* requests: BookRead is lines 2458-2485 (the loads and the checks),       *)
(* BookWrite lines 2491-2554 (the flush, the buffer query and the commit,  *)
(* which the store runs as one write transaction).  The UPDATE of a slot   *)
(* row that is gone raises and the handler rolls back.                     *)
(***************************************************************************)
BookRead(r, application_id, slot_id) ==
    /\ req[r].pc = "idle"
    /\ LET msg == BookingCheck(r, application_id, slot_id)
       IN  req' = [req EXCEPT ![r] =
                    IF msg # ""
                    THEN [pc |-> "done", app |-> application_id, slot |-> slot_id, msg |-> msg]
                    ELSE [pc |-> "checked", app |-> application_id, slot |-> slot_id, msg |-> ""]]
    /\ UNCHANGED <<now, db, wreq, walk, dreq>>

\* BookWrite whose failed commit leaves the chosen slot booked.
BookWrite_PartialCommit(r, ok) ==
    /\ req[r].pc = "checked"
    /\ IF ok /\ Get(slots, req[r].slot) # {}
       THEN /\ \E time_slot \in Get(slots, req[r].slot) :
                    BookingWrites(r, req[r].app, time_slot)
            /\ req' = [req EXCEPT ![r].pc = "done", ![r].msg = BookedMsg]
       ELSE /\ slots' = {IF x.id = req[r].slot THEN [x EXCEPT !.is_booked = TRUE] ELSE x
                         : x \in slots}
            /\ UNCHANGED <<schedules, breaks, apps, appts, certs, isVerified>>
            /\ req' = [req EXCEPT ![r].pc = "done", ![r].msg = BookErrorMsg]
    /\ UNCHANGED <<now, wreq, walk, dreq>>

BookWrite(r, ok) ==
    /\ req[r].pc = "checked"
    /\ IF ok /\ Get(slots, req[r].slot) # {}
       THEN /\ \E time_slot \in Get(slots, req[r].slot) :
                    BookingWrites(r, req[r].app, time_slot)
            /\ req' = [req EXCEPT ![r].pc = "done", ![r].msg = BookedMsg]
       ELSE /\ Rollback
            /\ req' = [req EXCEPT ![r].pc = "done", ![r].msg = BookErrorMsg]
    /\ UNCHANGED <<now, wreq, walk, dreq>>

\* The response of a finished request has been delivered.
BookDone(r) ==
    /\ req[r].pc = "done"
    /\ req' = [req EXCEPT ![r] = Idle]
    /\ UNCHANGED <<now, db, wreq, walk, dreq>>

(***************************************************************************)
(* cancel_interview                                                        *)
(***************************************************************************)
\* CancelCheck without the ownership check.
CancelCheck_NoOwner(r, appointment_id) ==
    IF Get(appts, appointment_id) = {}
    THEN "Appointment not found."
    ELSE IF \E p \in Get(appts, appointment_id) : p.status # "scheduled"
    THEN "This appointment cannot be cancelled."
    ELSE ""

CancelCheck(r, appointment_id) ==
    IF \A p \in Get(appts, appointment_id) : p.resident_id # r
    THEN "Appointment not found."
    ELSE IF \E p \in Get(appts, appointment_id) : p.status # "scheduled"
    THEN "This appointment cannot be cancelled."
    ELSE ""

\* Lines 2592-2596: the rows the query for the consumed slot matches.
ConsumedSlots(appointment) ==
    {x \in slots : /\ x.officer_id = appointment.officer_id
                   /\ x.start_time = appointment.appointment_date
                   /\ x.is_booked = TRUE}

\* cancel_interview that also frees the slots in the buffer of the consumed
\* slot.
cancel_interview_FreesBuffer(r, appointment_id, ok) ==
    /\ LET msg == CancelCheck(r, appointment_id)
       IN  IF msg # ""
           THEN /\ UNCHANGED db
           ELSE IF ~ok
           THEN /\ Rollback
           ELSE \E appointment \in Get(appts, appointment_id) :
                   /\ appts' = (appts \ {appointment})
                                  \cup {[appointment EXCEPT !.status = "cancelled"]}
                   /\ apps' = {IF a.id = appointment.application_id
                               THEN [a EXCEPT !.status = "leader_approved"]
                               ELSE a : a \in apps}
                   /\ slots' = {IF /\ x.officer_id = appointment.officer_id
                                    /\ x.start_time < appointment.appointment_date
                                                        + InterviewDuration + BufferDuration
                                    /\ x.end_time > appointment.appointment_date
                                 THEN [x EXCEPT !.is_booked = FALSE]
                                 ELSE x : x \in slots}
                   /\ UNCHANGED <<schedules, breaks, certs, isVerified>>
    /\ UNCHANGED <<now, req, wreq, walk, dreq>>

cancel_interview(r, appointment_id, ok) ==
    /\ LET msg == CancelCheck(r, appointment_id)
       IN  IF msg # ""
           THEN /\ UNCHANGED db
           ELSE IF ~ok
           THEN /\ Rollback
           ELSE \E appointment \in Get(appts, appointment_id) :
                   /\ appts' = (appts \ {appointment})
                                  \cup {[appointment EXCEPT !.status = "cancelled"]}
                   /\ apps' = {IF a.id = appointment.application_id
                               THEN [a EXCEPT !.status = "leader_approved"]
                               ELSE a : a \in apps}
                   \* .first() of a query without ORDER BY: any matching row
                   /\ IF ConsumedSlots(appointment) = {}
                      THEN slots' = slots
                      ELSE \E time_slot \in ConsumedSlots(appointment) :
                              slots' = (slots \ {time_slot})
                                          \cup {[time_slot EXCEPT !.is_booked = FALSE]}
                   /\ UNCHANGED <<schedules, breaks, certs, isVerified>>
    /\ UNCHANGED <<now, req, wreq, walk, dreq>>

----
(***************************************************************************)
(* schedule_interview (GET or POST).  Before anything else the handler     *)
(* seeds demo slots when no unbooked slot exists: for each of the 7 days   *)
(* from tomorrow, four 30-minute slots at 9, 11, 13 and 15 o'clock for the *)
(* first approved officer, and commits them.                               *)
(***************************************************************************)
\* officers[0]
FirstOfficer == OfficerList[1]

SeedSlots(S) ==
    LET start_date == now + Days(1)
        base == NextId(S)
    IN  S \cup {[id |-> base + day * Len(SeedHours) + (h - 1),
                 officer_id |-> FirstOfficer,
                 weekly_schedule_id |-> 0,
                 start_time |-> Combine(Date(start_date + Days(day)), SeedHours[h] * UnitsPerHour),
                 end_time |-> Combine(Date(start_date + Days(day)), SeedHours[h] * UnitsPerHour)
                                 + InterviewDuration,
                 is_booked |-> FALSE]
                : day \in 0 .. (SeedDays - 1), h \in 1 .. Len(SeedHours)}

\* Lines 2685-2702
Seeded(S) == IF {x \in S : x.is_booked = FALSE} = {} /\ Officers # {}
             THEN SeedSlots(S)
             ELSE S

Methods == {"GET", "POST"}

schedule_interview(r, application_id, method, slot_id) ==
    /\ \E application \in Get(apps, application_id) :
        IF application.applicant_id # r
        THEN /\ UNCHANGED db
        ELSE IF application.status # "leader_approved"
        THEN /\ UNCHANGED db
        ELSE IF method = "GET"
        THEN /\ slots' = Seeded(slots)
             /\ UNCHANGED <<schedules, breaks, apps, appts, certs, isVerified>>
        ELSE IF \E x \in Get(Seeded(slots), slot_id) : ~x.is_booked
        THEN \E slot \in Get(Seeded(slots), slot_id) :
                /\ Cardinality(appts) < MaxAppts
                /\ slots' = (Seeded(slots) \ {slot}) \cup {[slot EXCEPT !.is_booked = TRUE]}
                /\ appts' = appts \cup {NewAppointment(r, slot, application.id, "scheduled")}
                /\ apps' = (apps \ {application})
                              \cup {[application EXCEPT !.status = "interview_scheduled",
                                                        !.officer_id = slot.officer_id]}
                /\ UNCHANGED <<schedules, breaks, certs, isVerified>>
        ELSE /\ slots' = Seeded(slots)
             /\ UNCHANGED <<schedules, breaks, apps, appts, certs, isVerified>>
    /\ UNCHANGED <<now, req, wreq, walk, dreq>>

(***************************************************************************)
(* resident_schedule_interview (POST)                                      *)
(***************************************************************************)
\* Lines 623-626: the most recently created leader_approved application.
LeaderApprovedApplication(r) ==
    LET mine == {a \in apps : a.applicant_id = r /\ a.status = "leader_approved"}
    IN  {a \in mine : \A b \in mine : b.id <= a.id}

resident_schedule_interview(r, slot_id, ok) ==
    /\ IF LeaderApprovedApplication(r) = {}
       THEN /\ UNCHANGED db
       ELSE \E pending_application \in LeaderApprovedApplication(r) :
            IF \E p \in appts : p.application_id = pending_application.id
            THEN /\ UNCHANGED db
            ELSE IF \A x \in Get(slots, slot_id) : x.is_booked
            THEN /\ UNCHANGED db
            ELSE IF ~ok
            THEN /\ Rollback
            ELSE \E time_slot \in Get(slots, slot_id) :
                    /\ Cardinality(appts) < MaxAppts
                    /\ slots' = (slots \ {time_slot})
                                   \cup {[time_slot EXCEPT !.is_booked = TRUE]}
                    /\ apps' = AutoApprove(apps, pending_application.id, time_slot)
                    /\ appts' = appts \cup {NewAppointment(r, time_slot,
                                                pending_application.id, "completed")}
                    /\ certs' = certs \cup {NewCertificate(pending_application.id)}
                    /\ UNCHANGED <<schedules, breaks, isVerified>>
    /\ UNCHANGED <<now, req, wreq, walk, dreq>>

(***************************************************************************)
(* conduct_interview (POST)                                                *)
(***************************************************************************)
OfficerNotes == <<"officer notes">>

\* conduct_interview whose reject decision leaves the application at
\* interview_completed.
conduct_interview_InterviewCompleted(o, appointment_id, decision) ==
    /\ \E appointment \in Get(appts, appointment_id) :
        IF appointment.officer_id # o
        THEN /\ UNCHANGED db
        ELSE LET SetApp(status) ==
                    {IF a.id = appointment.application_id
                     THEN [a EXCEPT !.status = status, !.officer_notes = OfficerNotes]
                     ELSE a : a \in apps}
                 SetAppt(status) ==
                    (appts \ {appointment}) \cup {[appointment EXCEPT !.status = status]}
             IN  IF decision = "approve"
                 THEN /\ Cardinality(certs) < MaxCerts
                      /\ appts' = SetAppt("completed")
                      /\ apps' = SetApp("approved")
                      /\ certs' = certs \cup {NewCertificate(appointment.application_id)}
                      /\ UNCHANGED <<slots, schedules, breaks, isVerified>>
                 ELSE IF decision = "reject"
                 THEN /\ appts' = SetAppt("completed")
                      /\ apps' = SetApp("interview_completed")
                      /\ UNCHANGED <<slots, schedules, breaks, certs, isVerified>>
                 ELSE IF decision = "reschedule"
                 THEN /\ appts' = SetAppt("cancelled")
                      /\ apps' = SetApp("leader_approved")
                      /\ UNCHANGED <<slots, schedules, breaks, certs, isVerified>>
                 ELSE /\ UNCHANGED db
    /\ UNCHANGED <<now, req, wreq, walk, dreq>>

\* conduct_interview whose reschedule decision puts the appointment back to
\* scheduled.
conduct_interview_RescheduleKeeps(o, appointment_id, decision) ==
    /\ \E appointment \in Get(appts, appointment_id) :
        IF appointment.officer_id # o
        THEN /\ UNCHANGED db
        ELSE LET SetApp(status) ==
                    {IF a.id = appointment.application_id
                     THEN [a EXCEPT !.status = status, !.officer_notes = OfficerNotes]
                     ELSE a : a \in apps}
                 SetAppt(status) ==
                    (appts \ {appointment}) \cup {[appointment EXCEPT !.status = status]}
             IN  IF decision = "approve"
                 THEN /\ Cardinality(certs) < MaxCerts
                      /\ appts' = SetAppt("completed")
                      /\ apps' = SetApp("approved")
                      /\ certs' = certs \cup {NewCertificate(appointment.application_id)}
                      /\ UNCHANGED <<slots, schedules, breaks, isVerified>>
                 ELSE IF decision = "reject"
                 THEN /\ appts' = SetAppt("completed")
                      /\ apps' = SetApp("rejected")
                      /\ UNCHANGED <<slots, schedules, breaks, certs, isVerified>>
                 ELSE IF decision = "reschedule"
                 THEN /\ appts' = SetAppt("scheduled")
                      /\ apps' = SetApp("leader_approved")
                      /\ UNCHANGED <<slots, schedules, breaks, certs, isVerified>>
                 ELSE /\ UNCHANGED db
    /\ UNCHANGED <<now, req, wreq, walk, dreq>>

conduct_interview(o, appointment_id, decision) ==
    /\ \E appointment \in Get(appts, appointment_id) :
        IF appointment.officer_id # o
        THEN /\ UNCHANGED db
        ELSE LET SetApp(status) ==
                    {IF a.id = appointment.application_id
                     THEN [a EXCEPT !.status = status, !.officer_notes = OfficerNotes]
                     ELSE a : a \in apps}
                 SetAppt(status) ==
                    (appts \ {appointment}) \cup {[appointment EXCEPT !.status = status]}
             IN  IF decision = "approve"
                 THEN /\ Cardinality(certs) < MaxCerts
                      /\ appts' = SetAppt("completed")
                      /\ apps' = SetApp("approved")
                      /\ certs' = certs \cup {NewCertificate(appointment.application_id)}
                      /\ UNCHANGED <<slots, schedules, breaks, isVerified>>
                 ELSE IF decision = "reject"
                 THEN /\ appts' = SetAppt("completed")
                      /\ apps' = SetApp("rejected")
                      /\ UNCHANGED <<slots, schedules, breaks, certs, isVerified>>
                 ELSE IF decision = "reschedule"
                 THEN /\ appts' = SetAppt("cancelled")
                      /\ apps' = SetApp("leader_approved")
                      /\ UNCHANGED <<slots, schedules, breaks, certs, isVerified>>
                 ELSE /\ UNCHANGED db
    /\ UNCHANGED <<now, req, wreq, walk, dreq>>

----
(***************************************************************************)
(* The inputs of the requests.                                             *)
(***************************************************************************)
ApplicationIds == 1 .. MaxApps
AppointmentIds == 1 .. MaxAppts
SlotIds == 1 .. MaxSlotId

(***************************************************************************)
(* Spec: the application workflow.  Every request that reads or writes an  *)
(* application, an appointment or a certificate, by any resident, leader   *)
(* or officer, each request atomic; officer o1 offers ad-hoc slots.        *)
(***************************************************************************)
WorkflowAdHoc == {<<1, 36, 38>>}
Applicant == "r1"

Next ==
    \/ \E r \in Residents, ok \in BOOLEAN : resident_form(r, ok)
    \/ \E l \in Leaders, id \in ApplicationIds, d \in Decisions :
            leader_review_application(l, id, d)
    \/ \E f \in FormTypes : resident_profile_settings(Applicant, f)
    \/ \E ok \in BOOLEAN : resident_update_address(Applicant, ok)
    \/ \E i \in WorkflowAdHoc, ok \in BOOLEAN :
            police_add_availability(FirstOfficer, i[1], i[2], i[3], ok)
    \/ \E r \in Residents, a \in ApplicationIds, s \in SlotIds, ok \in BOOLEAN :
            book_interview_slot(r, a, s, ok)
    \/ \E p \in AppointmentIds, ok \in BOOLEAN : cancel_interview(Applicant, p, ok)
    \/ \E a \in ApplicationIds, m \in Methods, s \in SlotIds :
            schedule_interview(Applicant, a, m, s)
    \/ \E s \in SlotIds, ok \in BOOLEAN : resident_schedule_interview(Applicant, s, ok)
    \/ \E o \in Officers, p \in AppointmentIds, d \in Decisions :
            conduct_interview(o, p, d)

Spec == Init /\ [][Next]_vars

(***************************************************************************)
(* SpecStore: the availability store.  Two residents hold leader-approved  *)
(* applications; the officers create and delete slots and schedules while  *)
(* the residents book and cancel, each request atomic, and time passes.    *)
(***************************************************************************)
LeaderApproved(id, r) ==
    [id |-> id, applicant_id |-> r, leader_id |-> "l1",
     officer_id |-> NoUser, status |-> "leader_approved", officer_notes |-> <<>>]

InitStore ==
    /\ now = StartNow
    /\ slots = {}
    /\ schedules = {}
    /\ breaks = {}
    /\ apps = {LeaderApproved(1, "r1"), LeaderApproved(2, "r2")}
    /\ appts = {}
    /\ certs = {}
    /\ isVerified = [r \in Residents |-> TRUE]
    /\ req = [r \in Residents |-> Idle]
    /\ wreq = [q \in WeeklyRequests |-> WeeklyIdle]
    /\ walk = WalkIdle
    /\ dreq = DeleteIdle

StoreAdHoc == {<<1, 36, 38>>, <<1, 38, 40>>}
OtherAdHoc == {<<1, 36, 38>>}
OtherOfficer == OfficerList[2]
StoreWeekly == {<<1, 36, 41, <<>>, <<>> >>}
ScheduleIds == 1 .. MaxSchedules
StoreScheduleIds == {1}

NextStore ==
    \/ Tick
    \/ \E i \in StoreAdHoc, ok \in BOOLEAN :
            police_add_availability(FirstOfficer, i[1], i[2], i[3], ok)
    \/ \E i \in OtherAdHoc, ok \in BOOLEAN :
            police_add_availability(OtherOfficer, i[1], i[2], i[3], ok)
    \/ \E id \in SlotIds, ok \in BOOLEAN :
            police_delete_availability(FirstOfficer, id, ok)
    \/ \E i \in StoreWeekly, ok \in BOOLEAN :
            \* the officer sets up one weekly schedule
            /\ schedules = {}
            /\ police_add_weekly_availability(FirstOfficer, i[1], i[2], i[3], i[4], i[5], ok)
    \/ \E id \in StoreScheduleIds, ok \in BOOLEAN :
            police_delete_weekly_schedule(FirstOfficer, id, ok)
    \/ \E ok \in BOOLEAN : police_clear_availability(FirstOfficer, ok)
    \/ \E r \in Residents, a \in ApplicationIds, s \in SlotIds, ok \in BOOLEAN :
            book_interview_slot(r, a, s, ok)
    \/ \E r \in Residents, p \in AppointmentIds, ok \in BOOLEAN : cancel_interview(r, p, ok)
    \/ \E a \in ApplicationIds, m \in Methods, s \in SlotIds :
            schedule_interview(Applicant, a, m, s)

SpecStore == InitStore /\ [][NextStore]_vars

(***************************************************************************)
(* SpecGen: the slot generator.  Both officers create, delete and clear    *)
(* weekly schedules (Monday 09:00-12:00 with a break 10:00-10:15, Tuesday  *)
(* 09:00-10:15 with a break 09:30-09:45, Monday 07:00-08:00, which is over *)
(* at the start), officer o1 also adds and deletes ad-hoc slots, resident  *)
(* r1 books, each request atomic, and time passes.                         *)
(***************************************************************************)
GenWeekly == {<<0, 36, 48, <<40>>, <<41>> >>, <<1, 36, 41, <<38>>, <<39>> >>,
              <<0, 28, 32, <<>>, <<>> >>}
\* Next Monday 10:30-11:00, Monday 07:30-08:00, and an empty interval.
GenAdHoc == {<<7, 42, 44>>, <<0, 30, 32>>, <<1, 38, 36>>}

NextGen ==
    \/ Tick
    \/ \E o \in Officers, i \in GenWeekly, ok \in BOOLEAN :
            police_add_weekly_availability(o, i[1], i[2], i[3], i[4], i[5], ok)
    \/ \E o \in Officers, id \in ScheduleIds, ok \in BOOLEAN :
            police_delete_weekly_schedule(o, id, ok)
    \/ \E o \in Officers, ok \in BOOLEAN : police_clear_availability(o, ok)
    \/ \E i \in GenAdHoc, ok \in BOOLEAN :
            police_add_availability(FirstOfficer, i[1], i[2], i[3], ok)
    \/ \E o \in Officers, id \in SlotIds, ok \in BOOLEAN :
            police_delete_availability(o, id, ok)
    \/ \E s \in SlotIds, ok \in BOOLEAN : book_interview_slot(Applicant, 1, s, ok)

SpecGen == InitStore /\ [][NextGen]_vars

(***************************************************************************)
(* SpecRace: booking requests of two residents run side by side.  Each     *)
(* resident holds a leader-approved application, officer o1 two adjacent   *)
(* unbooked slots on Tuesday, 09:00-09:30 and 09:30-10:00.                 *)
(***************************************************************************)
InitRace ==
    /\ now = StartNow
    /\ slots = {[id |-> 1, officer_id |-> FirstOfficer, weekly_schedule_id |-> 0,
                 start_time |-> 132, end_time |-> 134, is_booked |-> FALSE],
                [id |-> 2, officer_id |-> FirstOfficer, weekly_schedule_id |-> 0,
                 start_time |-> 134, end_time |-> 136, is_booked |-> FALSE]}
    /\ schedules = {}
    /\ breaks = {}
    /\ apps = {LeaderApproved(1, "r1"), LeaderApproved(2, "r2")}
    /\ appts = {}
    /\ certs = {}
    /\ isVerified = [r \in Residents |-> TRUE]
    /\ req = [r \in Residents |-> Idle]
    /\ wreq = [q \in WeeklyRequests |-> WeeklyIdle]
    /\ walk = WalkIdle
    /\ dreq = DeleteIdle

RaceSlotIds == 1 .. (MaxSlotId + 1)

NextRace ==
    \/ \E r \in Residents, a \in ApplicationIds, s \in RaceSlotIds : BookRead(r, a, s)
    \/ \E r \in Residents, ok \in BOOLEAN : BookWrite(r, ok)
    \/ \E r \in Residents : BookDone(r)

SpecRace == InitRace /\ [][NextRace]_vars

(***************************************************************************)
(* SpecDeleteRace: the bookings of SpecRace beside a request of officer o1 *)
(* to delete one of the two slots.                                         *)
(***************************************************************************)
NextDeleteRace ==
    \/ \E r \in Residents, a \in ApplicationIds, s \in RaceSlotIds : BookRead(r, a, s)
    \/ \E r \in Residents, ok \in BOOLEAN : BookWrite(r, ok)
    \/ \E r \in Residents : BookDone(r)
    \/ \E s \in RaceSlotIds : DeleteRead(FirstOfficer, s)
    \/ \E ok \in BOOLEAN : DeleteWrite(ok)
    \/ DeleteDone

SpecDeleteRace == InitRace /\ [][NextDeleteRace]_vars

(***************************************************************************)
(* SpecWeekly: requests to police_add_weekly_availability of officer o1    *)
(* for Monday run side by side, 09:00-12:00 with a break 10:00-10:15 or    *)
(* 13:00-14:00 without breaks, while o1 deletes schedules and time passes. *)
(***************************************************************************)
RaceWeekly == {<<0, 36, 48, <<40>>, <<41>> >>, <<0, 52, 56, <<>>, <<>> >>}

\* Forms whose break entries are all malformed: an unparseable start and an
\* empty end, and a break_start[] list longer than the break_end[] list.
MalformedWeekly == {<<0, 36, 48, <<BadField, 40>>, <<41, EmptyField>> >>,
                    <<0, 36, 48, <<40>>, <<>> >>}

\* The starts of the slots whose INSERT raises: Monday 09:00 of the first week.
FailedInserts == {{36}}

NextWeekly ==
    \/ Tick
    \/ \E q \in WeeklyRequests, i \in RaceWeekly \cup MalformedWeekly :
            WeeklyRead(q, FirstOfficer, i[1], i[2], i[3], i[4], i[5])
    \/ \E q \in WeeklyRequests, ok \in BOOLEAN : WeeklyWrite(q, ok)
    \/ \E q \in WeeklyRequests, failed \in FailedInserts : WeeklyWriteInsert(q, failed)
    \/ \E q \in WeeklyRequests : WeeklyDone(q)
    \/ \E id \in ScheduleIds, ok \in BOOLEAN :
            police_delete_weekly_schedule(FirstOfficer, id, ok)

SpecWeekly == InitStore /\ [][NextWeekly]_vars

(***************************************************************************)
(* SpecWalk: one request to police_add_weekly_availability of officer o1   *)
(* runs its generation loop step by step while time passes; between two    *)
(* requests o1 adds ad-hoc slots and deletes schedules.  The forms: Monday *)
(* 09:00-12:00 with a break 10:00-10:15, Monday 09:00-12:00 with a break   *)
(* over the whole window, Tuesday 09:00-10:15 with a break 09:30-09:45 and *)
(* an empty break 10:00-10:00.  SpecWalkFair: the handler runs on until it *)
(* returns.                                                                *)
(***************************************************************************)
WalkWeekly == {<<0, 36, 48, <<40>>, <<41>> >>,
               <<0, 36, 48, <<36>>, <<48>> >>,
               <<1, 36, 41, <<38, 40>>, <<39, 40>> >>}

NextWalk ==
    \/ Tick
    \/ \E i \in WalkWeekly : WalkBegin(FirstOfficer, i[1], i[2], i[3], i[4], i[5])
    \/ WalkWeek
    \/ WalkIter
    \/ \E ok \in BOOLEAN : WalkCommit(ok)
    \/ WalkDone
    \/ \E i \in GenAdHoc, ok \in BOOLEAN :
            /\ walk.pc = "idle"
            /\ police_add_availability(FirstOfficer, i[1], i[2], i[3], ok)
    \/ \E id \in ScheduleIds, ok \in BOOLEAN :
            /\ walk.pc = "idle"
            /\ police_delete_weekly_schedule(FirstOfficer, id, ok)

SpecWalk == InitStore /\ [][NextWalk]_vars

SpecWalkFair ==
    /\ SpecWalk
    /\ WF_vars(WalkWeek)
    /\ WF_vars(WalkIter)
    /\ WF_vars(\E ok \in BOOLEAN : WalkCommit(ok))

----
(***************************************************************************)
(* Claims                                                                  *)
(***************************************************************************)

\* C1: in every state reachable by slot-creating requests (weekly
\* generation, ad-hoc insertion, the demo seeding of schedule_interview)
\* interleaved with bookings, cancellations and deletions, no two slots of
\* the same officer have overlapping half-open intervals [start, end).
C1_NoOverlap ==
    \A x \in slots, y \in slots :
        (x.id # y.id /\ x.officer_id = y.officer_id)
            => ~Overlaps(x.start_time, x.end_time, y.start_time, y.end_time)

\* The appointments that consumed slot x.
AppointmentsOn(x) ==
    {p \in appts : p.officer_id = x.officer_id /\ p.appointment_date = x.start_time}

\* C2: of the booking attempts that residents with their own leader-approved
\* applications run concurrently on one unbooked slot, exactly one succeeds:
\* the slot gets one appointment and one certificate, and every resident
\* whose attempt ended with 'slot no longer available' still has a
\* leader-approved application.
C2_ExactlyOneSucceeds ==
    \A x \in slots :
        /\ Cardinality(AppointmentsOn(x)) <= 1
        /\ Cardinality({c \in certs : \E p \in AppointmentsOn(x) :
                            c.application_id = p.application_id}) <= 1
        /\ \A r \in Residents :
              (req[r].pc = "done" /\ req[r].slot = x.id /\ req[r].msg = SlotUnavailableMsg)
                 => \A a \in apps : a.applicant_id = r => a.status = "leader_approved"

\* The preconditions of a booking, as section 4.3 of the design lists them.
BookingPre(r, application_id, slot_id) ==
    /\ \E a \in apps : /\ a.id = application_id
                       /\ a.applicant_id = r
                       /\ a.status = "leader_approved"
    /\ \E x \in slots : x.id = slot_id /\ ~x.is_booked

Booked(S, id) == \E y \in S : y.id = id /\ y.is_booked

\* C3: immediately after a successful book_interview_slot on the 30-minute
\* slot S = [T, T+30min) of officer O, S is booked and so is every other slot
\* of O that was unbooked and intersects [T, T+45min).
C3_Buffer ==
    [][\A r \in Residents, a \in ApplicationIds, s \in SlotIds : \A x \in Get(slots, s) :
          (/\ BookingPre(r, a, s)
           /\ x.end_time = x.start_time + InterviewDuration
           /\ book_interview_slot(r, a, s, TRUE))
          => /\ Booked(slots', s)
             /\ \A y \in slots :
                   (/\ y.officer_id = x.officer_id
                    /\ y.id # x.id
                    /\ ~y.is_booked
                    /\ y.start_time < x.start_time + 3
                    /\ y.end_time > x.start_time)
                   => Booked(slots', y.id)]_vars

\* A booked slot that an auto-completed appointment consumed, and a slot of
\* the same officer starting in its buffer that is booked without having an
\* appointment of its own.
C3_Witness ==
    \E x \in slots, y \in slots :
        /\ x.is_booked /\ y.is_booked
        /\ x.officer_id = y.officer_id
        /\ y.start_time = x.end_time
        /\ \E p \in AppointmentsOn(x) : p.status = "completed"
        /\ AppointmentsOn(y) = {}

\* C4: a successful book_interview_slot by resident R on R's leader-approved
\* application A and the unbooked slot S of officer O leaves, in one step, S
\* booked, A approved with officer O, exactly one new appointment linking R,
\* O and A on S.start with duration 30 minutes and status completed, and a
\* new certificate for A.
C4_BookingEffects ==
    [][\A r \in Residents, a \in ApplicationIds, s \in SlotIds : \A x \in Get(slots, s) :
          (BookingPre(r, a, s) /\ book_interview_slot(r, a, s, TRUE))
          => /\ Booked(slots', s)
             /\ \E b \in apps' : /\ b.id = a
                                 /\ b.status = "approved"
                                 /\ b.officer_id = x.officer_id
             /\ appts \subseteq appts'
             /\ Cardinality(appts' \ appts) = 1
             /\ \A p \in appts' \ appts :
                   /\ p.resident_id = r
                   /\ p.officer_id = x.officer_id
                   /\ p.application_id = a
                   /\ p.appointment_date = x.start_time
                   /\ p.duration_minutes = 30
                   /\ p.status = "completed"
             /\ certs \subseteq certs'
             /\ Cardinality(certs' \ certs) = 1
             /\ \A c \in certs' \ certs : c.application_id = a]_vars

\* Resident r2, who books only through book_interview_slot, has booked.
C4_Witness ==
    \E p \in appts, x \in slots, a \in apps, c \in certs :
        /\ p.resident_id = "r2" /\ p.status = "completed"
        /\ x.officer_id = p.officer_id /\ x.start_time = p.appointment_date /\ x.is_booked
        /\ a.id = p.application_id /\ a.applicant_id = "r2" /\ a.status = "approved"
        /\ a.officer_id = x.officer_id
        /\ c.application_id = a.id

\* C5: when the commit of book_interview_slot fails, the whole booking is
\* rolled back: no slot becomes booked, the application keeps its status and
\* officer fields, and no appointment or certificate of the attempt exists.
C5_Rollback ==
    [][\A r \in Residents :
          (req[r].pc = "checked" /\ req'[r].pc = "done" /\ req'[r].msg = BookErrorMsg)
          => /\ slots' = slots
             /\ apps' = apps
             /\ appts' = appts
             /\ certs' = certs]_vars

\* A booking of r1 failed at its commit: nothing is booked, approved or
\* issued.
C5_Witness ==
    /\ req["r1"].pc = "done" /\ req["r1"].msg = BookErrorMsg
    /\ \A x \in slots : ~x.is_booked
    /\ \A a \in apps : a.status = "leader_approved" /\ a.officer_id = NoUser
    /\ appts = {} /\ certs = {}

\* C6: book_interview_slot changes no slot, application, appointment or
\* certificate when a precondition fails (no such slot, slot already booked,
\* application of another resident, application not leader-approved): the
\* request ends at its checks with a failure message, and only a request that
\* passed its checks writes.
C6_FailedPrecondition ==
    [][/\ \A r \in Residents, a \in ApplicationIds, s \in RaceSlotIds :
             (BookRead(r, a, s) /\ ~BookingPre(r, a, s))
             => /\ req'[r].pc = "done"
                /\ req'[r].msg \notin {"", BookedMsg}
                /\ UNCHANGED <<slots, apps, appts, certs>>
       /\ (<<slots, apps, appts, certs>>' # <<slots, apps, appts, certs>>)
             => \E r \in Residents : req[r].pc = "checked" /\ req'[r].msg = BookedMsg]_vars

\* Resident r2 tried slot 1 after r1 had booked it: the attempt ended with
\* 'no longer available' and application 2 is still leader-approved.
C6_Witness ==
    /\ req["r2"].pc = "done" /\ req["r2"].slot = 1 /\ req["r2"].msg = SlotUnavailableMsg
    /\ \E p \in appts : p.resident_id = "r1" /\ p.appointment_date = 132
    /\ Cardinality(appts) = 1 /\ Cardinality(certs) = 1
    /\ \E a \in apps : a.id = 2 /\ a.status = "leader_approved" /\ a.officer_id = NoUser

Terminal == {"rejected", "cancelled", "superseded"}

\* C7: once an application's status is rejected, cancelled or superseded, no
\* operation ever changes that application's status again.
C7_TerminalStatus ==
    [][\A a \in apps : a.status \in Terminal
          => \E b \in apps' : b.id = a.id /\ b.status = a.status]_vars

\* The transitions section 4.4 of the design lists.
Transitions ==
    {<<"pending", "leader_approved">>, <<"pending", "rejected">>,
     <<"pending", "cancelled">>, <<"leader_approved", "approved">>,
     <<"leader_approved", "interview_scheduled">>,
     <<"interview_scheduled", "interview_completed">>,
     <<"interview_completed", "approved">>, <<"interview_completed", "rejected">>,
     <<"interview_completed", "leader_approved">>, <<"approved", "superseded">>}

\* C8: every change of an application's status made by any operation is one
\* of the listed transitions.
C8_ListedTransitions ==
    [][\A a \in apps, b \in apps' :
          (b.id = a.id /\ b.status # a.status) => <<a.status, b.status>> \in Transitions]_vars

\* C9: an application enters status superseded only from approved, by
\* resident_update_address, and enters status cancelled only from pending, by
\* an identity-affecting form of resident_profile_settings; a new application
\* has neither status.
C9_SupersededCancelled ==
    [][/\ \A a \in apps, b \in apps' :
             (b.id = a.id /\ b.status # a.status)
             => /\ b.status = "superseded"
                    => /\ a.status = "approved"
                       /\ resident_update_address(a.applicant_id, TRUE)
                /\ b.status = "cancelled"
                    => /\ a.status = "pending"
                       /\ \E f \in IdentityForms :
                             resident_profile_settings(a.applicant_id, f)
       /\ \A b \in apps' :
             (\A a \in apps : a.id # b.id) => b.status \notin {"superseded", "cancelled"}]_vars

\* An approved application was superseded by an address update and the new
\* pending application cancelled by a profile edit.
C9_Witness ==
    \E a \in apps, b \in apps :
        /\ a.applicant_id = b.applicant_id
        /\ a.status = "superseded"
        /\ b.status = "cancelled"

\* C10: every certificate created by any operation has expiry_date equal to
\* issue_date plus exactly 365 days, and no later operation changes a
\* certificate.
C10_Expiry ==
    [][/\ \A c \in certs' : c.expiry_date = c.issue_date + 365 * UnitsPerDay
       /\ certs \subseteq certs']_vars

\* An application holds two certificates, one issued by a booking and one by
\* the officer's approval, both valid for 365 days.
C10_Witness ==
    \E c \in certs, d \in certs, p \in appts :
        /\ c.id # d.id
        /\ c.application_id = d.application_id
        /\ p.application_id = c.application_id
        /\ c.expiry_date - c.issue_date = 365 * 96
        /\ d.expiry_date - d.issue_date = 365 * 96

CertificatesOf(a) == {c \in certs : c.application_id = a.id}

\* C11: certificates are 1:1 with approved applications: in every reachable
\* state each application has at most one certificate, and every application
\* whose status is approved has exactly one.
C11_OneCertificate ==
    \A a \in apps :
        /\ Cardinality(CertificatesOf(a)) <= 1
        /\ a.status = "approved" => Cardinality(CertificatesOf(a)) = 1

\* C12: in every reachable state each application is linked to at most one
\* appointment whose status is not cancelled.
C12_OneAppointment ==
    \A a \in apps :
        Cardinality({p \in appts : p.application_id = a.id /\ p.status # "cancelled"}) <= 1

\* The times of day <<start, end>> of the slots of officer o on a date.
SlotTimesOn(S, o, date) ==
    {<<TimeOfDay(x.start_time), TimeOfDay(x.end_time)>> :
        x \in {y \in S : y.officer_id = o /\ Date(y.start_time) = date}}

\* A weekly schedule Monday 09:00-12:00 with one break 10:00-10:15 is created
\* by an officer who has no slots; expected is the set of slot times the
\* request leaves on each of the four Monday occurrences.
MondayScheduleYields(expected) ==
    \A o \in Officers :
        (/\ {x \in slots : x.officer_id = o} = {}
         /\ police_add_weekly_availability(o, 0, 36, 48, <<40>>, <<41>>, TRUE)
         /\ schedules' # schedules)
        => /\ \A week \in 0 .. 3 :
                 SlotTimesOn(slots', o, FirstOccurrence(0, 48) + 7 * week) = expected
           /\ \A x \in slots' : x.officer_id = o => TimeOfDay(x.end_time) <= 48

\* C13 (as stated): the slots generated for each Monday occurrence are
\* exactly 09:00-09:30, 09:45-10:00, 10:15-10:45 and 11:00-11:30, and no slot
\* ends after 12:00.
C13_ScenarioAsStated ==
    [][MondayScheduleYields({<<36, 38>>, <<39, 40>>, <<41, 43>>, <<44, 46>>})]_vars

\* C13 (amended): the slots generated for each Monday occurrence are exactly
\* 09:00-09:30, 10:15-10:45 and 11:00-11:30: the candidate 09:45-10:15
\* overlaps the break and is dropped, the walk resumes at its end, and no
\* slot ends after 12:00.
C13_Scenario ==
    [][MondayScheduleYields({<<36, 38>>, <<41, 43>>, <<44, 46>>})]_vars

\* An officer has the active Monday schedule with its break and, on four
\* Mondays, the three slots generated from it and no others.
C13_Witness ==
    \E w \in schedules :
        /\ w.is_active /\ w.day_of_week = 0 /\ w.start_time = 36 /\ w.end_time = 48
        /\ \E b \in breaks : b.schedule_id = w.id /\ b.break_start_time = 40
                                /\ b.break_end_time = 41
        /\ Cardinality({x \in slots : x.officer_id = w.officer_id}) = 12
        /\ \A x \in slots : x.officer_id = w.officer_id =>
              /\ x.weekly_schedule_id = w.id
              /\ <<TimeOfDay(x.start_time), TimeOfDay(x.end_time)>>
                    \in {<<36, 38>>, <<41, 43>>, <<44, 46>>}

ActiveSchedules(W, o, day) ==
    {w \in W : w.officer_id = o /\ w.day_of_week = day /\ w.is_active = TRUE}

\* C14: after any sequence of atomic add-weekly-schedule, delete-weekly-
\* schedule and clear-availability requests every (officer, day_of_week) pair
\* has at most one active schedule, and a request to add a schedule for a day
\* that already has an active one creates no schedule, no break and no slot.
C14_OneActiveSchedule ==
    [][/\ \A o \in Officers, day \in 0 .. 6 :
             Cardinality(ActiveSchedules(schedules', o, day)) <= 1
       /\ \A o \in Officers, i \in GenWeekly, ok \in BOOLEAN :
             (/\ ActiveSchedules(schedules, o, i[1]) # {}
              /\ police_add_weekly_availability(o, i[1], i[2], i[3], i[4], i[5], ok))
             => UNCHANGED <<schedules, breaks, slots>>]_vars

\* An officer deleted the Monday schedule and added it again: one inactive
\* and one active schedule for the day.
C14_Witness ==
    \E v \in schedules, w \in schedules :
        /\ v.officer_id = w.officer_id
        /\ v.day_of_week = w.day_of_week
        /\ ~v.is_active
        /\ w.is_active

\* C15: when two police_add_weekly_availability requests of the same officer
\* for the same day run concurrently, at most one active schedule for that
\* (officer, day) exists afterwards and slots are generated for only one of
\* them.
C15_OneScheduleUnderRace ==
    \A o \in Officers, day \in 0 .. 6 :
        /\ Cardinality(ActiveSchedules(schedules, o, day)) <= 1
        /\ Cardinality({w \in ActiveSchedules(schedules, o, day) :
                           \E x \in slots : x.weekly_schedule_id = w.id}) <= 1

C17_DeleteWeeklyFrame ==
    [][\A o \in Officers, id \in ScheduleIds :
          police_delete_weekly_schedule(o, id, TRUE) =>
             IF \E w \in schedules : w.id = id /\ w.officer_id = o
             THEN /\ \A w \in schedules :
                        IF w.id = id
                        THEN [w EXCEPT !.is_active = FALSE] \in schedules'
                        ELSE w \in schedules'
                  /\ Cardinality(schedules') = Cardinality(schedules)
                  /\ slots' \subseteq slots
                  /\ \A x \in slots :
                        x \notin slots' <=> (/\ x.weekly_schedule_id = id
                                             /\ ~x.is_booked
                                             /\ x.start_time > now)
                  /\ UNCHANGED <<breaks, apps, appts, certs>>
             ELSE UNCHANGED <<schedules, slots, breaks, apps, appts, certs>>]_vars

\* A deleted schedule whose past unbooked slot is kept and whose future
\* unbooked slots are gone, while the other officer still has future slots.
C17_Witness ==
    \E w \in schedules :
        /\ ~w.is_active
        /\ \E x \in slots : /\ x.weekly_schedule_id = w.id
                            /\ ~x.is_booked
                            /\ x.start_time <= now
        /\ \A x \in slots : (x.weekly_schedule_id = w.id /\ ~x.is_booked)
                                => x.start_time <= now
        /\ \E y \in slots : /\ y.officer_id # w.officer_id
                            /\ ~y.is_booked
                            /\ y.start_time > now

\* C18: after police_clear_availability by officer O, O has no active weekly
\* schedule and no unbooked slot starting after now; O's booked slots and all
\* other officers' schedules and slots are unchanged; when the commit fails
\* neither effect is kept.
C18_ClearAvailability ==
    [][\A o \in Officers :
          /\ police_clear_availability(o, TRUE) =>
                /\ \A w \in schedules' : w.officer_id = o => ~w.is_active
                /\ \A x \in slots' : (x.officer_id = o /\ ~x.is_booked)
                                        => x.start_time <= now
                /\ \A x \in slots : (x.officer_id = o /\ x.is_booked) => x \in slots'
                /\ {x \in slots' : x.officer_id # o} = {x \in slots : x.officer_id # o}
                /\ {w \in schedules' : w.officer_id # o}
                      = {w \in schedules : w.officer_id # o}
                /\ slots' \subseteq slots
                /\ Cardinality(schedules') = Cardinality(schedules)
          /\ police_clear_availability(o, FALSE) => UNCHANGED <<schedules, slots>>]_vars

\* Officer o1 cleared the availability: the schedule is inactive, a booked
\* slot is kept, no unbooked future slot of o1 is left, and o2 still has an
\* active schedule with unbooked future slots.
C18_Witness ==
    /\ \E w \in schedules : w.officer_id = FirstOfficer
    /\ \A w \in schedules : w.officer_id = FirstOfficer => ~w.is_active
    /\ \E x \in slots : x.officer_id = FirstOfficer /\ x.is_booked
    /\ \A x \in slots : (x.officer_id = FirstOfficer /\ ~x.is_booked)
                            => x.start_time <= now
    /\ \E w \in schedules : w.officer_id = OtherOfficer /\ w.is_active
    /\ \E x \in slots : /\ x.officer_id = OtherOfficer
                        /\ ~x.is_booked
                        /\ x.start_time > now

\* C19: police_add_availability creates no slot and changes nothing when
\* start >= end, when start is before now, or when [start, end) overlaps a
\* persisted slot of the same officer, booked or unbooked; otherwise it
\* creates exactly one unbooked slot [start, end) for the caller.
C19_AddAvailability ==
    [][\A i \in GenAdHoc :
          police_add_availability(FirstOfficer, i[1], i[2], i[3], TRUE) =>
             LET start == i[1] * 96 + i[2]
                 end == i[1] * 96 + i[3]
             IN  IF \/ start >= end
                    \/ start < now
                    \/ \E x \in slots : /\ x.officer_id = FirstOfficer
                                        /\ x.start_time < end
                                        /\ x.end_time > start
                 THEN UNCHANGED <<slots, schedules, breaks, apps, appts, certs>>
                 ELSE /\ slots \subseteq slots'
                      /\ Cardinality(slots' \ slots) = 1
                      /\ \A y \in slots' \ slots :
                            /\ y.officer_id = FirstOfficer
                            /\ y.start_time = start
                            /\ y.end_time = end
                            /\ ~y.is_booked
                            /\ \A x \in slots : x.id # y.id
                      /\ UNCHANGED <<schedules, breaks, apps, appts, certs>>]_vars

\* The ad-hoc slot next Monday 10:30-11:00 of o1 is booked, so that a second
\* request for the interval overlaps a booked slot.
C19_Witness ==
    \E x \in slots :
        /\ x.officer_id = FirstOfficer
        /\ x.weekly_schedule_id = 0
        /\ x.start_time = 7 * 96 + 42
        /\ x.end_time = 7 * 96 + 44
        /\ x.is_booked

\* C20: a successful cancel_interview on an appointment owned by the calling
\* resident with status scheduled sets the appointment to cancelled, sets its
\* application to leader_approved, and sets to unbooked one booked slot of
\* the same officer whose start equals the appointment date; every other
\* slot, including buffer-blocked neighbours, is unchanged.
C20_CancelEffects ==
    [][\A id \in AppointmentIds : \A p \in Get(appts, id) :
          (/\ p.resident_id = Applicant
           /\ p.status = "scheduled"
           /\ cancel_interview(Applicant, id, TRUE))
          => /\ appts' = (appts \ {p}) \cup {[p EXCEPT !.status = "cancelled"]}
             /\ \A a \in apps' : a.id = p.application_id => a.status = "leader_approved"
             /\ \A a \in apps : a.id # p.application_id => a \in apps'
             /\ LET consumed == {x \in slots : /\ x.officer_id = p.officer_id
                                               /\ x.start_time = p.appointment_date
                                               /\ x.is_booked}
                IN  IF consumed = {}
                    THEN slots' = slots
                    ELSE \E x \in consumed :
                            slots' = (slots \ {x}) \cup {[x EXCEPT !.is_booked = FALSE]}
             /\ UNCHANGED certs]_vars

\* Resident r1 cancelled a scheduled interview: the slot of the appointment
\* is unbooked again and the application leader-approved, while the next
\* slot of the officer is still booked.
C20_Witness ==
    \E p \in appts, x \in slots, y \in slots, a \in apps :
        /\ p.status = "cancelled" /\ p.resident_id = Applicant
        /\ a.id = p.application_id /\ a.status = "leader_approved"
        /\ x.officer_id = p.officer_id /\ x.start_time = p.appointment_date
        /\ ~x.is_booked
        /\ y.officer_id = x.officer_id /\ y.start_time = x.end_time /\ y.is_booked

\* C21: cancel_interview changes no appointment, application or slot when
\* the appointment does not exist, does not belong to the calling resident,
\* or has a status other than scheduled.
C21_CancelRefused ==
    [][\A r \in Residents, id \in AppointmentIds, ok \in BOOLEAN :
          (/\ ~\E p \in appts : /\ p.id = id
                                /\ p.resident_id = r
                                /\ p.status = "scheduled"
           /\ cancel_interview(r, id, ok))
          => UNCHANGED <<appts, apps, slots>>]_vars

\* Resident r1 holds a scheduled appointment, which r2 cannot cancel, next
\* to a completed appointment, which nobody can cancel.
C21_Witness ==
    /\ \E p \in appts : p.resident_id = "r1" /\ p.status = "scheduled"
    /\ \E p \in appts : p.status = "completed"

\* C22: when a resident changes an identity-bearing profile field (name, ID
\* photo or face photo) through resident_profile_settings, every pending
\* application of that resident becomes cancelled and the resident's
\* isVerified becomes false in the same step; the resident's applications in
\* any other status and all applications of other residents are unchanged.
C22_ProfileEdit ==
    [][\A r \in Residents, f \in IdentityForms :
          (HasResidentInfo(r) /\ resident_profile_settings(r, f))
          => /\ isVerified'[r] = FALSE
             /\ {b.id : b \in apps'} = {a.id : a \in apps}
             /\ \A a \in apps :
                  IF a.applicant_id = r /\ a.status = "pending"
                  THEN [a EXCEPT !.status = "cancelled"] \in apps'
                  ELSE a \in apps']_vars

\* An identity edit has cancelled a pending application of r1 and reset
\* isVerified, while another application in another status is still there.
C22_Witness ==
    /\ isVerified["r1"] = FALSE
    /\ \E a \in apps : a.applicant_id = "r1" /\ a.status = "cancelled"
    /\ \E a \in apps : a.status \notin {"pending", "cancelled"}

\* C23: a resident_update_address submission is accepted only when the
\* resident has no application in pending, leader_approved,
\* interview_scheduled or interview_completed; when accepted it turns every
\* approved application of that resident into superseded and creates exactly
\* one new pending application in the same step, so that afterwards the
\* resident has no approved application and isVerified is false; if the
\* commit fails neither change is visible.
C23_UpdateAddress ==
    [][\A r \in Residents, ok \in BOOLEAN :
          resident_update_address(r, ok)
          => LET outstanding ==
                     \E a \in apps :
                        /\ a.applicant_id = r
                        /\ a.status \in {"pending", "leader_approved",
                                         "interview_scheduled", "interview_completed"}
                 created == {b \in apps' : b.id \notin {a.id : a \in apps}}
             IN  /\ outstanding => UNCHANGED <<apps, isVerified>>
                 /\ ~ok => UNCHANGED <<apps, isVerified>>
                 /\ (~outstanding /\ ok /\ \E a \in apps : a.applicant_id = r)
                    => /\ \A a \in apps :
                            IF a.applicant_id = r /\ a.status = "approved"
                            THEN \E b \in apps' : /\ b.id = a.id
                                                  /\ b.applicant_id = r
                                                  /\ b.status = "superseded"
                            ELSE a \in apps'
                       /\ Cardinality(apps') = Cardinality(apps) + 1
                       /\ Cardinality(created) = 1
                       /\ \A b \in created : b.applicant_id = r /\ b.status = "pending"
                       /\ ~\E b \in apps' : b.applicant_id = r /\ b.status = "approved"
                       /\ isVerified'[r] = FALSE]_vars

\* An accepted address update: the formerly approved application 1 of r1 is
\* superseded, application 2 is the new pending one, r1 is unverified.
C23_Witness ==
    /\ \E a \in apps : a.id = 1 /\ a.applicant_id = "r1" /\ a.status = "superseded"
    /\ \E a \in apps : a.id = 2 /\ a.applicant_id = "r1" /\ a.status = "pending"
    /\ isVerified["r1"] = FALSE
    /\ ~\E a \in apps : a.applicant_id = "r1" /\ a.status = "approved"

\* C24: if persisting one generated slot fails during
\* police_add_weekly_availability, only that slot is skipped: the new weekly
\* schedule, its breaks and the other generated slots are still committed.
C24_PerSlotSkip ==
    [][\A q \in WeeklyRequests, failed \in FailedInserts :
          LET o == wreq[q].officer
              form == wreq[q].form
              generated == GeneratedSlots(o, form[1], form[2], form[3], form[4], form[5])
          IN  (/\ wreq[q].pc = "checked"
               /\ \E x \in generated : x.start_time \in failed
               /\ \E x \in generated : x.start_time \notin failed
               /\ WeeklyWriteInsert(q, failed))
              => /\ \E w \in schedules' \ schedules : /\ w.officer_id = o
                                                      /\ w.day_of_week = form[1]
                 /\ Len(form[4]) > 0 => breaks' # breaks
                 /\ \A x \in generated :
                       x.start_time \notin failed
                       => \E y \in slots' : /\ y.officer_id = o
                                            /\ y.start_time = x.start_time]_vars

\* C25: a break entry submitted with a missing, empty or unparseable start
\* or end time (including a break-start list longer than the break-end list)
\* is ignored without aborting the request: the weekly schedule and its
\* slots are still created, and the ignored entry excludes no slot.
C25_MalformedBreaksIgnored ==
    [][\A q \in WeeklyRequests :
          LET o == wreq[q].officer
              form == wreq[q].form
              Malformed(i) == \/ form[4][i] \in {EmptyField, BadField}
                              \/ i > Len(form[5])
                              \/ form[5][i] \in {EmptyField, BadField}
          IN  (/\ wreq[q].pc = "checked"
               /\ Len(form[4]) > 0
               /\ \A i \in 1..Len(form[4]) : Malformed(i)
               /\ WeeklyWrite(q, TRUE))
              => /\ \E w \in schedules' \ schedules : /\ w.officer_id = o
                                                      /\ w.day_of_week = form[1]
                 /\ breaks' = breaks
                 /\ slots' = slots \cup GeneratedSlots(o, form[1], form[2], form[3],
                                                       <<>>, <<>>)]_vars

\* C26: a new AvailableTimeSlot comes into existence only through the owning
\* officer's own request (weekly-schedule generation or ad-hoc insertion);
\* no request made by a resident or a leader ever creates a slot.
C26_OnlyOfficersCreateSlots ==
    [][(\/ (\E r \in Residents, ok \in BOOLEAN : resident_form(r, ok))
        \/ (\E r \in Residents, ok \in BOOLEAN : resident_update_address(r, ok))
        \/ (\E r \in Residents, f \in FormTypes : resident_profile_settings(r, f))
        \/ (\E l \in Leaders, id \in ApplicationIds, d \in Decisions :
               leader_review_application(l, id, d))
        \/ (\E r \in Residents, a \in ApplicationIds, x \in SlotIds, ok \in BOOLEAN :
               book_interview_slot(r, a, x, ok))
        \/ (\E r \in Residents, p \in AppointmentIds, ok \in BOOLEAN :
               cancel_interview(r, p, ok))
        \/ (\E r \in Residents, a \in ApplicationIds, m \in Methods, x \in SlotIds :
               schedule_interview(r, a, m, x))
        \/ (\E r \in Residents, x \in SlotIds, ok \in BOOLEAN :
               resident_schedule_interview(r, x, ok)))
       => {x.id : x \in slots'} \subseteq {x.id : x \in slots}]_vars

\* The slots generated from weekly schedule w.
GeneratedFrom(w) == {x \in slots : x.weekly_schedule_id = w.id}

\* C27 (as stated): every slot generated from a weekly schedule with window
\* [start, end) has duration exactly 30 minutes, ends no later than end, and
\* starts at start + k*45 minutes for some integer k >= 0, also for the
\* slots that follow a break or an existing-slot conflict.
C27_GridAsStated ==
    \A w \in schedules : \A x \in GeneratedFrom(w) :
        /\ x.end_time - x.start_time = 2
        /\ TimeOfDay(x.end_time) <= w.end_time
        /\ TimeOfDay(x.start_time) >= w.start_time
        /\ (TimeOfDay(x.start_time) - w.start_time) % 3 = 0

\* The starts start + k*45 + j*30 minutes of the candidates of a window
\* that ends at end: from the candidate at t the next one is 30 minutes
\* later when [t, t + 30) overlaps a break in B, 45 minutes later otherwise.
RECURSIVE CandidateStarts(_, _, _)
CandidateStarts(t, end, B) ==
    IF t + 2 > end
    THEN {}
    ELSE {t} \cup CandidateStarts(
                    IF \E b \in B : t < b.break_end_time /\ t + 2 > b.break_start_time
                    THEN t + 2
                    ELSE t + 3,
                    end, B)

\* C27 (amended): every slot generated from a weekly schedule with window
\* [start, end) has duration exactly 30 minutes, ends no later than end, and
\* starts at start + k*45 + j*30 minutes, where k counts the candidates
\* before it that overlap no break and j those that overlap a break.
C27_Grid ==
    \A w \in schedules : \A x \in GeneratedFrom(w) :
        /\ x.end_time - x.start_time = 2
        /\ TimeOfDay(x.end_time) <= w.end_time
        /\ TimeOfDay(x.start_time)
              \in CandidateStarts(w.start_time, w.end_time,
                                  {b \in breaks : b.schedule_id = w.id})

\* A Monday schedule 09:00-12:00 with break 10:00-10:15 has generated a slot
\* at 10:15, after the candidate dropped for the break, and the slot at
\* 11:00 that follows it, while the officer also holds an ad-hoc slot.
C27_Witness ==
    \E w \in schedules :
        /\ w.start_time = 36
        /\ \E x \in GeneratedFrom(w) : TimeOfDay(x.start_time) = 41
        /\ \E x \in GeneratedFrom(w) : TimeOfDay(x.start_time) = 44
        /\ \E x \in slots : x.officer_id = w.officer_id /\ x.weekly_schedule_id # w.id

\* C28: no slot generated from a weekly schedule overlaps any break of that
\* schedule under the half-open test (slot_start < break_end and slot_end >
\* break_start), and a candidate that touches a break only at an endpoint
\* (slot_end = break_start or slot_start = break_end) is not dropped because
\* of that break: generated by an officer without slots for a day that is
\* not skipped, it is persisted.
C28_Breaks ==
    [][/\ \A w \in schedules' : \A x \in slots' : \A b \in breaks' :
             (x.weekly_schedule_id = w.id /\ b.schedule_id = w.id)
             => ~(/\ TimeOfDay(x.start_time) < b.break_end_time
                  /\ TimeOfDay(x.end_time) > b.break_start_time)
       /\ \A o \in Officers, i \in GenWeekly :
             (/\ {x \in slots : x.officer_id = o} = {}
              /\ police_add_weekly_availability(o, i[1], i[2], i[3], i[4], i[5], TRUE)
              /\ schedules' # schedules)
             => LET B == {b \in breaks' \ breaks : b.schedule_id = NextId(schedules)}
                    first == FirstOccurrence(i[1], i[3])
                    Touches(t) == \E b \in B : \/ t + 2 = b.break_start_time
                                               \/ t = b.break_end_time
                    Hits(t) == \E b \in B : /\ t < b.break_end_time
                                            /\ t + 2 > b.break_start_time
                IN  \A week \in 0 .. 3 :
                       Combine(first + 7 * week, i[2]) >= now
                       => \A t \in CandidateStarts(i[2], i[3], B) :
                             (Touches(t) /\ ~Hits(t))
                             => \E x \in slots' :
                                   /\ x.officer_id = o
                                   /\ x.start_time = Combine(first + 7 * week, t)]_vars

\* The Tuesday schedule 09:00-10:15 with break 09:30-09:45 has generated the
\* slot 09:00-09:30, which ends where the break starts, and the slot
\* 09:45-10:15, which starts where the break ends.
C28_Witness ==
    \E w \in schedules : \E b \in breaks :
        /\ b.schedule_id = w.id
        /\ \E x \in GeneratedFrom(w) : TimeOfDay(x.end_time) = b.break_start_time
        /\ \E x \in GeneratedFrom(w) : TimeOfDay(x.start_time) = b.break_end_time

\* The first date of generation for weekday d and schedule end end_time, as
\* C29 states it: the earliest date on or after today whose weekday is d,
\* or today + 7 when today's weekday is d and the time of day is at or past
\* the schedule end.
FirstDate(d, end_time) ==
    LET today == Date(now)
        earliest == CHOOSE x \in today .. today + 6 : x % 7 = d
    IN  IF earliest = today /\ TimeOfDay(now) >= end_time
        THEN today + 7
        ELSE earliest

\* C29: generation for day_of_week d at time now places slots only on the
\* four dates first, first+7, first+14 and first+21 days, where first is the
\* earliest date on or after today whose weekday is d, except that first is
\* today+7 when today's weekday is d and now's time-of-day is at or past the
\* schedule end; every generated slot's date has weekday d.  On each of the
\* four dates whose window starts at or after now, an officer without slots
\* gets the slot at the window start.
C29_Dates ==
    [][\A o \in Officers, i \in GenWeekly :
          (/\ police_add_weekly_availability(o, i[1], i[2], i[3], i[4], i[5], TRUE)
           /\ schedules' # schedules)
          => LET first == FirstDate(i[1], i[3])
                 created == {x \in slots' : x.id \notin {y.id : y \in slots}}
             IN  /\ \A x \in created :
                       /\ Date(x.start_time) \in {first, first + 7, first + 14, first + 21}
                       /\ Date(x.start_time) % 7 = i[1]
                 /\ {x \in slots : x.officer_id = o} = {}
                    => \A k \in 0 .. 3 :
                          (first + 7 * k) * 96 + i[2] >= now
                          => \E x \in created :
                                x.start_time = (first + 7 * k) * 96 + i[2]]_vars

\* At Monday 08:00 an officer created the Monday schedule 07:00-08:00: its
\* slots are on the four Mondays from next week on, none today.
C29_Witness ==
    /\ now = 32
    /\ \E w \in schedules :
          /\ w.day_of_week = 0 /\ w.end_time = 32
          /\ {Date(x.start_time) : x \in GeneratedFrom(w)} = {7, 14, 21, 28}

\* C30: during generation a candidate slot is dropped for being in the past
\* exactly when its own start is before generation time: no generated slot
\* starts before now, and when generation runs on the schedule's day at a
\* time inside [start, end), the candidates of today whose start is still in
\* the future (and that hit no break or existing slot) are persisted.
C30_PastCandidates ==
    [][\A o \in Officers, i \in GenWeekly :
          (/\ {x \in slots : x.officer_id = o} = {}
           /\ police_add_weekly_availability(o, i[1], i[2], i[3], i[4], i[5], TRUE)
           /\ schedules' # schedules)
          => LET today == Date(now)
                 created == {x \in slots' : x.id \notin {y.id : y \in slots}}
                 B == breaks' \ breaks
                 Hits(t) == \E b \in B : /\ t < b.break_end_time
                                         /\ t + 2 > b.break_start_time
             IN  /\ \A x \in created : x.start_time >= now
                 /\ (/\ today % 7 = i[1]
                     /\ i[2] <= TimeOfDay(now)
                     /\ TimeOfDay(now) < i[3])
                    => \A t \in CandidateStarts(i[2], i[3], B) :
                          (today * 96 + t >= now /\ ~Hits(t))
                          => \E x \in created : x.start_time = today * 96 + t]_vars

\* C31: book_interview_slot on slot S = [T, T+30min) of officer O changes the
\* booked flag only of S and of O's slots intersecting [T, T+45min): a slot
\* of O that ends at or before T or starts at or after T+45min, every slot
\* of another officer, and every slot that was already booked keep their
\* state; no slot is added or removed and no other field changes.
C31_BookingFrame ==
    [][\A r \in Residents, a \in ApplicationIds, s \in SlotIds, ok \in BOOLEAN :
          book_interview_slot(r, a, s, ok)
          => \A x \in Get(slots, s) :
                /\ x.end_time = x.start_time + 2
                   => \A y \in slots :
                         (\/ y.officer_id # x.officer_id
                          \/ y.end_time <= x.start_time
                          \/ y.start_time >= x.start_time + 3
                          \/ y.is_booked)
                         => y \in slots'
                /\ \A y \in slots : \/ y \in slots'
                                    \/ [y EXCEPT !.is_booked = TRUE] \in slots'
                /\ Cardinality(slots') = Cardinality(slots)]_vars

\* Officer o1's ad-hoc slot 10:30-11:00 of next Monday is booked with an
\* appointment, and so is the generated slot at 11:00 in its buffer; the
\* generated slot at 09:00 of that day and the slots of o2 are not.
C31_Witness ==
    /\ \E p \in appts : p.appointment_date = 7 * 96 + 42
    /\ \E x \in slots : x.officer_id = "o1" /\ x.start_time = 7 * 96 + 42 /\ x.is_booked
    /\ \E x \in slots : x.officer_id = "o1" /\ x.start_time = 7 * 96 + 44 /\ x.is_booked
    /\ \E y \in slots : y.officer_id = "o1" /\ y.start_time = 7 * 96 + 36 /\ ~y.is_booked
    /\ \E y \in slots : y.officer_id = "o2" /\ y.start_time = 7 * 96 + 44 /\ ~y.is_booked

\* C32: slot generation in police_add_weekly_availability always
\* terminates: the interval walk of each of the 4 occurrences advances the
\* candidate start strictly on every iteration (also on the break-skip
\* path), and a request that has entered the loop reaches its commit.
C32_WalkTerminates ==
    /\ [][(WalkIter /\ walk'.pc = "walking")
          => walk'.current_slot_start > walk.current_slot_start]_vars
    /\ (walk.pc \in {"week", "walking"}) ~> (walk.pc = "done")

\* The request with a break over the whole window has walked all four
\* Mondays, dropped every candidate and returned.
C32_Witness ==
    /\ walk.pc = "done"
    /\ walk.form = <<0, 36, 48, <<36>>, <<48>> >>
    /\ walk.week = 4
    /\ walk.current_slot_start > 21 * 96

\* C33: every operation that consumes a slot for an appointment applies the
\* same booking effects: the POST of resident_schedule_interview and the
\* POST of schedule_interview, like book_interview_slot, leave no unbooked
\* slot of the same officer intersecting [slot.start, slot.end + 15min)
\* after a successful booking.
C33_SameBookingEffects ==
    [][\A r \in Residents, s \in SlotIds :
          (/\ \/ (\E a \in ApplicationIds : schedule_interview(r, a, "POST", s))
              \/ resident_schedule_interview(r, s, TRUE)
              \/ (\E a \in ApplicationIds : book_interview_slot(r, a, s, TRUE))
           /\ appts' # appts)
          => \A x \in Get(slots', s) :
                ~\E y \in slots' :
                    /\ ~y.is_booked
                    /\ y.officer_id = x.officer_id
                    /\ y.start_time < x.end_time + 1
                    /\ y.end_time > x.start_time]_vars

\* C34: every slot with is_booked = true is accounted for by an appointment:
\* in every reachable state there is a non-cancelled appointment of the same
\* officer whose date equals the slot's start or whose window
\* [date, date+45min) intersects the slot; in particular after a resident's
\* cancellation or an officer's reschedule decision no slot stays booked
\* without such an appointment.
C34_BookedSlotsAccounted ==
    \A x \in slots :
        x.is_booked
        => \E p \in appts :
              /\ p.status # "cancelled"
              /\ p.officer_id = x.officer_id
              /\ \/ p.appointment_date = x.start_time
                 \/ /\ x.start_time < p.appointment_date + 3
                    /\ x.end_time > p.appointment_date

\* C35: in every reachable state a resident has at most one application
\* whose status is pending, leader_approved, interview_scheduled or
\* interview_completed, whatever interleaving of registration, address
\* updates, leader decisions, bookings, cancellations and officer decisions
\* led there.
C35_OneOutstandingApplication ==
    \A r \in Residents :
        Cardinality({a \in apps :
                        /\ a.applicant_id = r
                        /\ a.status \in {"pending", "leader_approved",
                                         "interview_scheduled", "interview_completed"}}) <= 1

C37_NoInterviewCompleted ==
    \A a \in apps : a.status # "interview_completed"

\* An officer has decided on an application after its interview was
\* scheduled: the appointment is completed, the application approved or
\* rejected with the officer's notes.
C37_Witness ==
    \E a \in apps : \E p \in appts :
        /\ p.application_id = a.id
        /\ p.status = "completed"
        /\ a.officer_notes = OfficerNotes
        /\ a.status \in {"approved", "rejected"}

\* C38: when police_delete_availability and book_interview_slot run
\* concurrently on the same unbooked slot (each reading is_booked before the
\* other commits), it never happens that both succeed: no state is reached
\* in which the booking's appointment and certificate are committed while
\* the slot it consumed has been deleted.
C38_DeleteOrBook ==
    \A p \in appts :
        (\E c \in certs : c.application_id = p.application_id)
        => \E x \in slots : /\ x.officer_id = p.officer_id
                            /\ x.start_time = p.appointment_date

====
